---------------------------- MODULE Spec2Model ----------------------------
(***************************************************************************)
(* A model of the stream-cave daemon's event pipeline                      *)
(* (src/bin/stream-caved.rs and the actors it launches).                   *)
(*                                                                         *)
(* The supervisor (run) builds one actor group per pass of its inner loop. *)
(* It never aborts the tasks of an earlier group: task::spawn's handle is  *)
(* dropped, which detaches the task.  Every piece of per-group state is    *)
(* therefore a function over the group number g, and the tasks of every    *)
(* group created so far (1..group_count) may take steps.                   *)
(*                                                                         *)
(* A bounded mpsc channel is the sequence of the messages in flight; a     *)
(* send is enabled only while the sequence is shorter than the capacity    *)
(* (Sender::send awaits a free slot).                                      *)
(*                                                                         *)
(* The specifications share the variables:                                 *)
(*   SpecCorrelator  the Event Correlator's three tasks and their inputs;  *)
(*   SpecSession     the first group's loader, WebSocket reader and        *)
(*                   subscriber against every frame the reader acts on;    *)
(*   SpecReader      the first group's WebSocket reader against a provider *)
(*                   whose next frame is part of the state;                *)
(*   SpecShutdown    the Loader and the Correlator sending on channels     *)
(*                   whose receivers are dropped;                          *)
(*   SpecSupervisor  run() with token validation and restarts, every       *)
(*                   group's loader, reader and subscriber;                *)
(*   SpecTeardown    SpecSupervisor with every task scheduled fairly;      *)
(*   SpecRestart     run() with any value put on the restart channel;      *)
(*   SpecPipeline    Correlator, Player Spawner and Exit Diagnoser of the  *)
(*                   first group once its schedule is loaded;              *)
(*   SpecSpawner     the Player Spawner on its own, for either player.     *)
(***************************************************************************)
EXTENDS Integers, Sequences, FiniteSets, Bags, TLC

\* ------------------------------------------------------------- bounds ---
\* Longest Streams value (number of configured broadcasters).
MaxStreams == 2
\* Messages sent on the two event inputs of the Event Correlator.
MaxEvents == 2
\* Actor groups the supervisor builds (supervision cycles).
MaxGroups == 2
\* Players that exit with a failure status or fail to start.
MaxExits == 2
\* Search requests in a row, within one diagnosis, that get no response.
MaxSearchErrors == 2

\* ---------------------------------------------------- program constants ---
\* mpsc::channel(10): every channel between two actors.
ChannelCapacity == 10
\* mpsc::channel(1): the restart-signal channel.
RestartCapacity == 1

Groups == 1..MaxGroups

Logins == {"kaicenat", "jynxzi"}
Profiles == {"normal", "low-data"}

\* The broadcaster id registered for a login (tests of file_watcher.rs).
BroadcasterId(login) ==
    IF login = "kaicenat" THEN 641972806 ELSE 411377640

\* The quality_overides values a schedule entry is given in this model:
\* none, one that does not name the default profile, and the two of
\* tests/resources/schedule.json (the default profile's entry second).
OverrideLists ==
    { << >>,
      << <<"low-data", 0>> >>,
      << <<"low-data", 0>>, <<"normal", 480>> >> }

\* struct StreamConfig
StreamConfig(name, overrides) ==
    [ name |-> name,
      id |-> BroadcasterId(name),
      quality_overides |-> overrides,
      streams_to_close_on |-> << >>,
      streams_to_open_on |-> << >> ]

StreamConfigs == { StreamConfig(n, o) : n \in Logins, o \in OverrideLists }

\* struct Streams: a sequence of configs; login is unique across the set
\* (the data model's invariant on the schedule file).
StreamsValues ==
    { s \in UNION { [1..n -> StreamConfigs] : n \in 0..MaxStreams } :
        \A i, j \in DOMAIN s : i # j => s[i].name # s[j].name }

\* Settings::profile values: the default of Settings::new and one a
\* config.json may hold.
SettingsProfiles == { <<"normal", 1080>>, <<"low-data", 720>> }

\* Player kinds.
Players == {"Mpv", "Streamlink"}

VARIABLES
    \* -- the daemon's inputs and the supervisor (stream-caved.rs run)
    settings,                       \* Settings (player, profile)
    streams,                        \* Arc<Mutex<Streams>>: read only by the daemon
    provider,                       \* what the network and the provider can answer
    group_count,                    \* actor groups built so far
    supervisor,                     \* where run() stands
    token,                          \* run()'s Option<UserToken>
    user_access_token,              \* the Arc<Option<UserToken>> group g was given
    receivers_dropped,              \* channels of group g whose receiver is gone
    \* -- channels of group g (stream-caved.rs:70-84)
    file_watcher_twitch_websocket,  \* broadcaster ids
    file_watcher_event_handler,     \* configs
    twitch_websocket_event_handler, \* (tag, login) notifications
    exit_handler_event_handler,     \* (tag, login) retries
    event_handler_task_spawner,     \* (login, quality) play requests
    task_spawner_exit_handler,      \* (login, exit result) pairs
    restart_signal,                 \* restart codes
    \* -- Scheduler Loader (file_watcher)
    file_watcher,                   \* [pc, i]: position in the schedule
    \* -- WebSocket Session (twitch_websocket)
    first_name_signal,              \* the channel from the subscriber to the reader
    websocket_session_id,           \* Arc<Mutex<String>>
    stream_reader,                  \* the task reading frames
    subscriber,                     \* the task subscribing to ids
    \* -- Event Correlator (event_handler)
    streamer_configs,               \* Arc<Mutex<Vec<StreamConfig>>>
    socket_task,                    \* the task reading notifications
    exit_task,                      \* the task reading retries
    \* -- Player Spawner (task_spawner) and its child tasks
    children,                       \* the spawned tasks awaiting a player
    \* -- Exit Diagnoser (exit_handler)
    exit_handler,                   \* [pc, stream_name, wait_time, ...]
    \* -- history (not program state)
    restarts,                       \* restart codes run() has handled, in order
    ids_sent,                       \* ids the loader has sent, in order
    configs_sent,                   \* configs the loader has sent, in order
    posts,                          \* subscription requests issued
    socket_received,                \* logins the socket task has received
    socket_emitted,                 \* logins it has sent to the Player Spawner
    exit_emitted,                   \* logins the exit task has sent to it
    play_requests,                  \* the messages sent to the Player Spawner
    events_sent,                    \* messages sent on the event inputs
    exits_sent,                     \* (login, result) pairs sent to the Diagnoser
    exits_taken,                    \* the pairs the Diagnoser has received
    in_diagnosis,                   \* the exits whose diagnosis is running
    searches,                       \* requests and responses, latest diagnosis
    effects,                        \* what the Diagnoser sent last
    retries_decided,                \* logins the search API reported live
    failures                        \* players that failed or did not start

daemonVars == << settings, streams, provider, group_count, supervisor, token,
                 user_access_token, receivers_dropped, restarts >>
loaderVars == << file_watcher, file_watcher_twitch_websocket,
                 file_watcher_event_handler, ids_sent, configs_sent >>
socketVars == << first_name_signal, websocket_session_id, stream_reader,
                 subscriber, posts >>
correlatorVars == << streamer_configs, socket_task, exit_task,
                     twitch_websocket_event_handler,
                     exit_handler_event_handler,
                     event_handler_task_spawner,
                     socket_received, socket_emitted, exit_emitted,
                     play_requests, events_sent >>
spawnerVars == << children, task_spawner_exit_handler,
                  exits_sent, failures >>
diagnoserVars == << exit_handler, exits_taken, in_diagnosis, searches,
                    effects, retries_decided >>
\* What no task of the Correlator or the Loader touches.
elsewhereVars == << daemonVars, restart_signal, socketVars, spawnerVars,
                    diagnoserVars >>

vars == << daemonVars, restart_signal, loaderVars, socketVars,
           correlatorVars, spawnerVars, diagnoserVars >>

\* ------------------------------------------------------------ helpers ---
Min(S) == CHOOSE x \in S : \A y \in S : x <= y

IsPrefix(s, t) ==
    /\ Len(s) <= Len(t)
    /\ \A i \in 1..Len(s) : s[i] = t[i]

Front(s) == SubSeq(s, 1, Len(s) - 1)

Range(s) == { s[i] : i \in DOMAIN s }

\* The groups whose tasks exist.
Running == 1..group_count

\* A send on this channel of group g fails: its receiver has been dropped.
ReceiverGone(g, channel) == channel \in receivers_dropped[g]

\* ------------------------------------------------------ Event Correlator ---
\* event_handler.rs:66  let global_profile = ("normal", 1080);
GlobalProfile == <<"normal", 1080>>

\* A faulty lookup: the first override of the config is taken without
\* comparing its profile name.
ResolveQualityAnyProfile(configs, login, global_profile) ==
    LET found == { i \in DOMAIN configs : configs[i].name = login } IN
    IF found = {} THEN global_profile[2]
    ELSE LET overrides == configs[Min(found)].quality_overides
         IN  IF overrides = << >> THEN global_profile[2]
             ELSE overrides[1][2]

\* handle_event's lookup (event_handler.rs:101-118): the first config whose
\* name is the login, then the first of its overrides whose profile is the
\* global profile's name; the global quality when either find fails.
ResolveQuality(configs, login, global_profile) ==
    LET found == { i \in DOMAIN configs : configs[i].name = login } IN
    IF found = {} THEN global_profile[2]
    ELSE LET overrides == configs[Min(found)].quality_overides
             hit == { j \in DOMAIN overrides :
                        overrides[j][1] = global_profile[1] }
         IN  IF hit = {} THEN global_profile[2]
             ELSE overrides[Min(hit)][2]

\* A task of the Correlator between two messages.
IdleTask == [ pc |-> "recv", stream |-> << >>, quality |-> 0, table |-> << >> ]


\* A notification or retry as it travels: (tag, login).  cfg_sent is history:
\* whether the login's config had already been sent on the config channel
\* when this message was sent.
Message(tag, login, cfg_sent) ==
    [ tag |-> tag, login |-> login, cfg_sent |-> cfg_sent ]

\* The logins whose config the Scheduler Loader of group g has sent.
ConfigsSent(g) ==
    { streams[j].name : j \in 1..(file_watcher[g].i - 1) }

\* event_handler.rs:68-76: the task that appends every received config to
\* the table (recv and push run without an await in between).
FileTaskRecv(g) ==
    /\ ~ReceiverGone(g, "file_watcher_event_handler")
    /\ file_watcher_event_handler[g] # << >>
    /\ streamer_configs' =
         [streamer_configs EXCEPT
            ![g] = Append(@, Head(file_watcher_event_handler[g]))]
    /\ file_watcher_event_handler' =
         [file_watcher_event_handler EXCEPT ![g] = Tail(@)]
    /\ UNCHANGED << elsewhereVars, file_watcher, file_watcher_twitch_websocket,
                    ids_sent, configs_sent, socket_task, exit_task, twitch_websocket_event_handler,
                    exit_handler_event_handler, event_handler_task_spawner,
                    socket_received, socket_emitted, exit_emitted, play_requests, events_sent >>

\* handle_event up to its yield_now().await (event_handler.rs:101-103).
HandleEventStart(stream) ==
    [ pc |-> "yield", stream |-> stream, quality |-> GlobalProfile[2],
      table |-> << >> ]

\* handle_event from the yield to the send (event_handler.rs:104-120): the
\* lookup under the mutex.  table records the table the lookup saw.
HandleEventLookup(task, configs) ==
    [ task EXCEPT !.pc = "send",
                  !.quality = ResolveQuality(configs, task.stream.login,
                                             GlobalProfile),
                  !.table = configs ]

\* The record of one message sent to the Player Spawner.
PlayRequest(src, task) ==
    [ src |-> src, tag |-> task.stream.tag, login |-> task.stream.login,
      quality |-> task.quality, cfg_sent |-> task.stream.cfg_sent,
      table |-> task.table ]

\* event_handler.rs:78-84: the socket task takes the next notification.
SocketTaskRecv(g) ==
    /\ socket_task[g].pc = "recv"
    /\ twitch_websocket_event_handler[g] # << >>
    /\ socket_task' =
         [socket_task EXCEPT
            ![g] = HandleEventStart(Head(twitch_websocket_event_handler[g]))]
    /\ twitch_websocket_event_handler' =
         [twitch_websocket_event_handler EXCEPT ![g] = Tail(@)]
    /\ socket_received' =
         [socket_received EXCEPT
            ![g] = Append(@, Head(twitch_websocket_event_handler[g]).login)]
    /\ UNCHANGED << elsewhereVars, loaderVars, streamer_configs, exit_task,
                    exit_handler_event_handler, event_handler_task_spawner,
                    socket_emitted, exit_emitted, play_requests, events_sent >>

\* event_handler.rs:78-82: the socket task's handle_event after its yield.
SocketTaskLookup(g) ==
    /\ socket_task[g].pc = "yield"
    /\ socket_task' =
         [socket_task EXCEPT
            ![g] = HandleEventLookup(@, streamer_configs[g])]
    /\ UNCHANGED << elsewhereVars, loaderVars, streamer_configs, exit_task,
                    twitch_websocket_event_handler,
                    exit_handler_event_handler, event_handler_task_spawner,
                    socket_received, socket_emitted, exit_emitted, play_requests, events_sent >>

\* A faulty send: a login that the table does not hold is not played.
SocketTaskSendKnownOnly(g) ==
    /\ socket_task[g].pc = "send"
    /\ Len(event_handler_task_spawner[g]) < ChannelCapacity
    /\ LET known == \E i \in DOMAIN socket_task[g].table :
                       socket_task[g].table[i].name = socket_task[g].stream.login
       IN  /\ event_handler_task_spawner' =
                [event_handler_task_spawner EXCEPT
                   ![g] = IF known
                          THEN Append(@, << socket_task[g].stream.login,
                                            socket_task[g].quality >>)
                          ELSE @]
           /\ play_requests' =
                [play_requests EXCEPT
                   ![g] = IF known
                          THEN @ \cup { PlayRequest("socket", socket_task[g]) }
                          ELSE @]
           /\ socket_emitted' =
                [socket_emitted EXCEPT
                   ![g] = IF known
                          THEN Append(@, socket_task[g].stream.login)
                          ELSE @]
    /\ socket_task' = [socket_task EXCEPT ![g] = IdleTask]
    /\ UNCHANGED << elsewhereVars, loaderVars, streamer_configs, exit_task,
                    twitch_websocket_event_handler,
                    exit_handler_event_handler, socket_received,
                    exit_emitted, events_sent >>

\* event_handler.rs:120-124: sender.send(task).await.expect(..): the task
\* panics when the Player Spawner's receiver is gone.
SocketTaskSend(g) ==
    /\ socket_task[g].pc = "send"
    /\ IF ReceiverGone(g, "event_handler_task_spawner")
       THEN /\ socket_task' = [socket_task EXCEPT ![g].pc = "panicked"]
            /\ UNCHANGED << event_handler_task_spawner, play_requests,
                            socket_emitted >>
       ELSE /\ Len(event_handler_task_spawner[g]) < ChannelCapacity
            /\ event_handler_task_spawner' =
                 [event_handler_task_spawner EXCEPT
                    ![g] = Append(@, << socket_task[g].stream.login,
                                        socket_task[g].quality >>)]
            /\ play_requests' =
                 [play_requests EXCEPT
                    ![g] = @ \cup { PlayRequest("socket", socket_task[g]) }]
            /\ socket_emitted' =
                 [socket_emitted EXCEPT
                    ![g] = Append(@, socket_task[g].stream.login)]
            /\ socket_task' = [socket_task EXCEPT ![g] = IdleTask]
    /\ UNCHANGED << elsewhereVars, loaderVars, streamer_configs, exit_task,
                    twitch_websocket_event_handler,
                    exit_handler_event_handler, socket_received,
                    exit_emitted, events_sent >>

\* event_handler.rs:86-92: the exit task takes the next retry.
ExitTaskRecv(g) ==
    /\ exit_task[g].pc = "recv"
    /\ exit_handler_event_handler[g] # << >>
    /\ exit_task' =
         [exit_task EXCEPT
            ![g] = HandleEventStart(Head(exit_handler_event_handler[g]))]
    /\ exit_handler_event_handler' =
         [exit_handler_event_handler EXCEPT ![g] = Tail(@)]
    /\ UNCHANGED << elsewhereVars, loaderVars, streamer_configs, socket_task,
                    twitch_websocket_event_handler,
                    event_handler_task_spawner, socket_received,
                    socket_emitted, exit_emitted, play_requests, events_sent >>

\* A faulty retry path: the retry is resolved without the table.
ExitTaskLookupNoTable(g) ==
    /\ exit_task[g].pc = "yield"
    /\ exit_task' =
         [exit_task EXCEPT
            ![g] = [ @ EXCEPT !.pc = "send", !.table = streamer_configs[g] ]]
    /\ UNCHANGED << elsewhereVars, loaderVars, streamer_configs, socket_task,
                    twitch_websocket_event_handler,
                    exit_handler_event_handler, event_handler_task_spawner,
                    socket_received, socket_emitted, exit_emitted, play_requests,
                    events_sent >>

\* event_handler.rs:86-90: the exit task's handle_event after its yield.
ExitTaskLookup(g) ==
    /\ exit_task[g].pc = "yield"
    /\ exit_task' =
         [exit_task EXCEPT ![g] = HandleEventLookup(@, streamer_configs[g])]
    /\ UNCHANGED << elsewhereVars, loaderVars, streamer_configs, socket_task,
                    twitch_websocket_event_handler,
                    exit_handler_event_handler, event_handler_task_spawner,
                    socket_received, socket_emitted, exit_emitted, play_requests, events_sent >>

ExitTaskSend(g) ==
    /\ exit_task[g].pc = "send"
    /\ IF ReceiverGone(g, "event_handler_task_spawner")
       THEN /\ exit_task' = [exit_task EXCEPT ![g].pc = "panicked"]
            /\ UNCHANGED << event_handler_task_spawner, play_requests,
                            exit_emitted >>
       ELSE /\ Len(event_handler_task_spawner[g]) < ChannelCapacity
            /\ event_handler_task_spawner' =
                 [event_handler_task_spawner EXCEPT
                    ![g] = Append(@, << exit_task[g].stream.login,
                                        exit_task[g].quality >>)]
            /\ play_requests' =
                 [play_requests EXCEPT
                    ![g] = @ \cup { PlayRequest("exit", exit_task[g]) }]
            /\ exit_emitted' =
                 [exit_emitted EXCEPT
                    ![g] = Append(@, exit_task[g].stream.login)]
            /\ exit_task' = [exit_task EXCEPT ![g] = IdleTask]
    /\ UNCHANGED << elsewhereVars, loaderVars, streamer_configs, socket_task,
                    twitch_websocket_event_handler,
                    exit_handler_event_handler, socket_received,
                    socket_emitted, events_sent >>

\* A faulty loader that walks the schedule from its last entry when it sends
\* the ids.
FileWatcherSendIdReversed(g) ==
    /\ file_watcher[g].pc = "send_id"
    /\ Len(file_watcher_twitch_websocket[g]) < ChannelCapacity
    /\ LET id == streams[Len(streams) + 1 - file_watcher[g].i].id IN
         /\ file_watcher_twitch_websocket' =
              [file_watcher_twitch_websocket EXCEPT ![g] = Append(@, id)]
         /\ ids_sent' = [ids_sent EXCEPT ![g] = Append(@, id)]
    /\ file_watcher' = [file_watcher EXCEPT ![g].pc = "send_config"]
    /\ UNCHANGED << elsewhereVars, file_watcher_event_handler, configs_sent,
                    correlatorVars >>

\* ------------------------------------------------------ Scheduler Loader ---
\* file_watcher.rs:43-46: send the id of the next config to the WebSocket
\* Session; an exhausted schedule ends the loader.  The send's error is
\* unwrapped with expect: it panics when the receiver is gone.
FileWatcherSendId(g) ==
    /\ file_watcher[g].pc = "send_id"
    /\ IF ReceiverGone(g, "file_watcher_twitch_websocket")
       THEN /\ file_watcher' = [file_watcher EXCEPT ![g].pc = "panicked"]
            /\ UNCHANGED << file_watcher_twitch_websocket, ids_sent >>
       ELSE /\ Len(file_watcher_twitch_websocket[g]) < ChannelCapacity
            /\ file_watcher_twitch_websocket' =
                 [file_watcher_twitch_websocket EXCEPT
                    ![g] = Append(@, streams[file_watcher[g].i].id)]
            /\ ids_sent' =
                 [ids_sent EXCEPT
                    ![g] = Append(@, streams[file_watcher[g].i].id)]
            /\ file_watcher' = [file_watcher EXCEPT ![g].pc = "send_config"]
    /\ UNCHANGED << elsewhereVars, file_watcher_event_handler, configs_sent,
                    correlatorVars >>

\* A faulty loader that consumes the shared schedule instead of its own
\* clone: the groups built later start where this loader stands.
FileWatcherSendConfigShared(g) ==
    /\ file_watcher[g].pc = "send_config"
    /\ Len(file_watcher_event_handler[g]) < ChannelCapacity
    /\ file_watcher_event_handler' =
         [file_watcher_event_handler EXCEPT
            ![g] = Append(@, streams[file_watcher[g].i])]
    /\ file_watcher' =
         [h \in Groups |->
            IF h = g \/ h > group_count
            THEN [ pc |-> IF file_watcher[g].i < Len(streams) THEN "send_id"
                          ELSE "done",
                   i |-> file_watcher[g].i + 1 ]
            ELSE file_watcher[h]]
    /\ configs_sent' =
         [configs_sent EXCEPT ![g] = Append(@, streams[file_watcher[g].i])]
    /\ UNCHANGED << elsewhereVars, file_watcher_twitch_websocket, ids_sent,
                    correlatorVars >>

\* file_watcher.rs:47-50: then send the config itself to the Correlator,
\* with expect on the send's error as well.
FileWatcherSendConfig(g) ==
    /\ file_watcher[g].pc = "send_config"
    /\ IF ReceiverGone(g, "file_watcher_event_handler")
       THEN /\ file_watcher' = [file_watcher EXCEPT ![g].pc = "panicked"]
            /\ UNCHANGED << file_watcher_event_handler, configs_sent >>
       ELSE /\ Len(file_watcher_event_handler[g]) < ChannelCapacity
            /\ file_watcher_event_handler' =
                 [file_watcher_event_handler EXCEPT
                    ![g] = Append(@, streams[file_watcher[g].i])]
            /\ file_watcher' =
                 [file_watcher EXCEPT
                    ![g] = [ pc |-> IF @.i < Len(streams) THEN "send_id"
                                    ELSE "done",
                             i |-> @.i + 1 ]]
            /\ configs_sent' =
                 [configs_sent EXCEPT
                    ![g] = Append(@, streams[file_watcher[g].i])]
    /\ UNCHANGED << elsewhereVars, file_watcher_twitch_websocket, ids_sent,
                    correlatorVars >>

\* file_watcher.rs:40-42: the loader as spawned: at the first config, or done
\* at once on an empty schedule.
FileWatcherStart(s) ==
    [ pc |-> IF Len(s) = 0 THEN "done" ELSE "send_id", i |-> 1 ]

\* ------------------------------------- the Correlator's tests as drivers ---
\* tests::handle_socket_event (event_handler.rs:175-178): a message sent on
\* the notification input.
SocketSenderSend(g) ==
    /\ events_sent < MaxEvents
    /\ Len(twitch_websocket_event_handler[g]) < ChannelCapacity
    /\ \E login \in Logins :
         twitch_websocket_event_handler' =
           [twitch_websocket_event_handler EXCEPT
              ![g] = Append(@, Message("live", login,
                                       login \in ConfigsSent(g)))]
    /\ events_sent' = events_sent + 1
    /\ UNCHANGED << elsewhereVars, loaderVars, streamer_configs, socket_task,
                    exit_task, exit_handler_event_handler,
                    event_handler_task_spawner, socket_received,
                    socket_emitted, exit_emitted, play_requests >>

\* tests::handle_exit_event (event_handler.rs:206-209): a message sent on
\* the retry input, tagged as the Exit Diagnoser tags it.
ExitSenderSend(g) ==
    /\ events_sent < MaxEvents
    /\ Len(exit_handler_event_handler[g]) < ChannelCapacity
    /\ \E login \in Logins :
         exit_handler_event_handler' =
           [exit_handler_event_handler EXCEPT
              ![g] = Append(@, Message("retry", login,
                                       login \in ConfigsSent(g)))]
    /\ events_sent' = events_sent + 1
    /\ UNCHANGED << elsewhereVars, loaderVars, streamer_configs, socket_task,
                    exit_task, twitch_websocket_event_handler,
                    event_handler_task_spawner, socket_received,
                    socket_emitted, exit_emitted, play_requests >>

\* -------------------------------------------------------- Player Spawner ---
\* What the Correlator's tasks keep to themselves.
correlatorTaskVars == << streamer_configs, socket_task, exit_task,
                         socket_received, socket_emitted, exit_emitted,
                         play_requests >>
correlatorInnerVars == << correlatorTaskVars, events_sent >>

\* A task spawned by the Player Spawner (tasks_handler.rs:46-53) with the
\* player future it awaits: running, or already resolved to a result.
\* stream-caved.rs:44  const STREAMING_SITE: &str = "https://www.twitch.tv/"
STREAMING_SITE == "https://www.twitch.tv/"

\* A player that treats no quality as audio only.
get_stream_video_only(player, stream, quality) ==
    IF player = "Mpv"
    THEN << "mpv", stream, "--no-resume-playback",
            "--ytdl-format=best[height<=?" \o ToString(quality) \o "]" >>
    ELSE << "streamlink", stream, ToString(quality) \o "p" >>

\* player.rs:22-51: the command get_stream builds: the program and its
\* arguments in order.
get_stream(player, stream, quality) ==
    IF player = "Mpv"
    THEN IF quality = 0
         THEN << "mpv", stream, "--no-resume-playback",
                 "--ytdl-format=bestaudio" >>
         ELSE << "mpv", stream, "--no-resume-playback",
                 "--ytdl-format=best[height<=?" \o ToString(quality) \o "]" >>
    ELSE IF quality = 0
         THEN << "streamlink", stream, "audio_only" >>
         ELSE << "streamlink", stream, ToString(quality) \o "p" >>

\* The qualities of the play requests sent to the Player Spawner on its own:
\* the audio-only sentinel, the smallest other u16 and two video heights.
Qualities == {0, 1, 480, 1080}

Child(login, quality, result) ==
    [ login |-> login, quality |-> quality,
      command |-> get_stream(settings.player, STREAMING_SITE \o login,
                             quality),
      result |-> result ]

\* tests::spawn_task (tasks_handler.rs:297-300): a play request sent to the
\* Player Spawner.
PlayRequestSend(g) ==
    /\ events_sent < MaxEvents
    /\ Len(event_handler_task_spawner[g]) < ChannelCapacity
    /\ \E login \in Logins, quality \in Qualities :
         event_handler_task_spawner' =
           [event_handler_task_spawner EXCEPT
              ![g] = Append(@, << login, quality >>)]
    /\ events_sent' = events_sent + 1
    /\ UNCHANGED << elsewhereVars, loaderVars, correlatorTaskVars,
                    twitch_websocket_event_handler,
                    exit_handler_event_handler >>

\* What a player resolves to: an exit status or an error launching it.
ExitResults == {"success", "failure", "io_error"}

\* A faulty spawner that spawns no task for a player that failed to start:
\* nothing is forwarded for that request.
TaskSpawnerRecvDropFailed(g) ==
    /\ event_handler_task_spawner[g] # << >>
    /\ LET request == Head(event_handler_task_spawner[g]) IN
       \E result \in {"running", "io_error"} :
         /\ result = "io_error" => failures < MaxExits
         /\ failures' = IF result = "io_error" THEN failures + 1
                        ELSE failures
         /\ children' =
              [children EXCEPT
                 ![g] = IF result = "io_error" THEN @
                        ELSE @ (+) SetToBag({ Child(request[1], request[2],
                                                    result) })]
    /\ event_handler_task_spawner' =
         [event_handler_task_spawner EXCEPT ![g] = Tail(@)]
    /\ UNCHANGED << daemonVars, restart_signal, loaderVars, socketVars,
                    correlatorInnerVars, twitch_websocket_event_handler,
                    exit_handler_event_handler, task_spawner_exit_handler,
                    exits_sent, diagnoserVars >>

\* A faulty Spawner that sends the exit of each player itself: it takes a
\* request only when the exit channel has room.
TaskSpawnerRecvAwaitsPlayer(g) ==
    /\ ~ReceiverGone(g, "event_handler_task_spawner")
    /\ event_handler_task_spawner[g] # << >>
    /\ Len(task_spawner_exit_handler[g]) < ChannelCapacity
    /\ LET request == Head(event_handler_task_spawner[g]) IN
       \E result \in {"running", "io_error"} :
         /\ result = "io_error" => failures < MaxExits
         /\ failures' = IF result = "io_error" THEN failures + 1
                        ELSE failures
         /\ children' =
              [children EXCEPT
                 ![g] = @ (+) SetToBag({ Child(request[1], request[2],
                                              result) })]
    /\ event_handler_task_spawner' =
         [event_handler_task_spawner EXCEPT ![g] = Tail(@)]
    /\ UNCHANGED << daemonVars, restart_signal, loaderVars, socketVars,
                    correlatorInnerVars, twitch_websocket_event_handler,
                    exit_handler_event_handler, task_spawner_exit_handler,
                    exits_sent, diagnoserVars >>

\* tasks_handler.rs:42-54: take the next play request, launch the player
\* (Command::status spawns the process: it is running or failed to start) and
\* spawn the task that awaits it.
TaskSpawnerRecv(g) ==
    /\ ~ReceiverGone(g, "event_handler_task_spawner")
    /\ event_handler_task_spawner[g] # << >>
    /\ LET request == Head(event_handler_task_spawner[g]) IN
       \E result \in {"running", "io_error"} :
         /\ result = "io_error" => failures < MaxExits
         /\ failures' = IF result = "io_error" THEN failures + 1
                        ELSE failures
         /\ children' =
              [children EXCEPT
                 ![g] = @ (+) SetToBag({ Child(request[1], request[2],
                                              result) })]
    /\ event_handler_task_spawner' =
         [event_handler_task_spawner EXCEPT ![g] = Tail(@)]
    /\ UNCHANGED << daemonVars, restart_signal, loaderVars, socketVars,
                    correlatorInnerVars, twitch_websocket_event_handler,
                    exit_handler_event_handler, task_spawner_exit_handler,
                    exits_sent, diagnoserVars >>

\* The player of a child task exits, with or without success.
PlayerExit(g) ==
    /\ \E c \in BagToSet(children[g]) :
         /\ c.result = "running"
         /\ \E status \in {"success", "failure"} :
              /\ status = "failure" => failures < MaxExits
              /\ failures' = IF status = "failure" THEN failures + 1
                             ELSE failures
              /\ children' =
                   [children EXCEPT
                      ![g] = (@ (-) SetToBag({c}))
                             (+) SetToBag({ [c EXCEPT !.result = status] })]
    /\ UNCHANGED << daemonVars, restart_signal, loaderVars, socketVars,
                    correlatorVars, task_spawner_exit_handler, exits_sent,
                    diagnoserVars >>

\* tasks_handler.rs:47-52: the child task sends (login, result) to the Exit
\* Diagnoser and ends.
ChildSend(g) ==
    /\ Len(task_spawner_exit_handler[g]) < ChannelCapacity
    /\ \E c \in BagToSet(children[g]) :
         /\ c.result \in ExitResults
         /\ children' = [children EXCEPT ![g] = @ (-) SetToBag({c})]
         /\ task_spawner_exit_handler' =
              [task_spawner_exit_handler EXCEPT
                 ![g] = Append(@, [ login |-> c.login, result |-> c.result ])]
         /\ exits_sent' =
              [exits_sent EXCEPT
                 ![g] = Append(@, [ login |-> c.login, result |-> c.result ])]
    /\ UNCHANGED << daemonVars, restart_signal, loaderVars, socketVars,
                    correlatorVars, failures, diagnoserVars >>

\* --------------------------------------------------------- Exit Diagnoser ---
\* tasks_handler.rs:136  const MAX_WAIT_TIME: Duration = from_secs(180)
MAX_WAIT_TIME == 180

\* The two most recent of a loop's sleep durations.
LastTwo(s) == IF Len(s) <= 2 THEN s ELSE SubSeq(s, Len(s) - 1, Len(s))

\* tasks_handler.rs:192-203: the wait before the next search request.
NextWaitTime(wait_time) ==
    IF wait_time < MAX_WAIT_TIME
    THEN IF wait_time * 2 > MAX_WAIT_TIME THEN MAX_WAIT_TIME
         ELSE wait_time * 2
    ELSE IF wait_time = MAX_WAIT_TIME THEN wait_time
    ELSE MAX_WAIT_TIME

\* The Diagnoser at tasks_handler.rs:100, waiting for the next exit.
IdleDiagnoser ==
    [ pc |-> "recv", stream_name |-> "", wait_time |-> 1, sleeps |-> << >> ]

\* What the search request of tasks_handler.rs:139-145 can come back with:
\* 200 with the login's record live or not live, 200 without the record, 200
\* with a body that does not parse, 401, another status, no response.
SearchResponses ==
    { "live", "offline", "not_found", "malformed", "unauthorized",
      "unexpected", "network_error" }

\* The receiver of group g's restart channel exists while run() waits on it
\* (stream-caved.rs:135); `continue` and `break` drop it.
RestartReceiverOpen(g) == g = group_count /\ supervisor = "wait"

\* A faulty Diagnoser that takes the next exit whether or not the diagnosis
\* of the previous one has returned.
ExitHandlerRecvAnytime(g) ==
    /\ task_spawner_exit_handler[g] # << >>
    /\ LET exit == Head(task_spawner_exit_handler[g])
           diagnose == exit.result = "failure" /\ user_access_token[g] # "none"
       IN  /\ exits_taken' = [exits_taken EXCEPT ![g] = Append(@, exit)]
           /\ exit_handler' =
                [exit_handler EXCEPT
                   ![g] = IF diagnose
                          THEN [ pc |-> "request", stream_name |-> exit.login,
                                 wait_time |-> 1, sleeps |-> << >> ]
                          ELSE @]
           /\ in_diagnosis' =
                [in_diagnosis EXCEPT
                   ![g] = IF diagnose THEN Append(@, Len(exits_taken[g]) + 1)
                          ELSE @]
    /\ task_spawner_exit_handler' =
         [task_spawner_exit_handler EXCEPT ![g] = Tail(@)]
    /\ UNCHANGED << daemonVars, restart_signal, loaderVars, socketVars,
                    correlatorVars, children, exits_sent, failures, searches,
                    effects, retries_decided >>

\* A faulty Diagnoser that looks up the stream of every player that ended,
\* whatever its result.
ExitHandlerRecvAnyStatus(g) ==
    /\ exit_handler[g].pc = "recv"
    /\ task_spawner_exit_handler[g] # << >>
    /\ LET exit == Head(task_spawner_exit_handler[g])
           diagnose == user_access_token[g] # "none"
       IN  /\ exits_taken' = [exits_taken EXCEPT ![g] = Append(@, exit)]
           /\ exit_handler' =
                [exit_handler EXCEPT
                   ![g] = IF diagnose
                          THEN [ pc |-> "request", stream_name |-> exit.login,
                                 wait_time |-> 1, sleeps |-> << >> ]
                          ELSE @]
           /\ in_diagnosis' =
                [in_diagnosis EXCEPT
                   ![g] = IF diagnose THEN Append(@, Len(exits_taken[g]) + 1)
                          ELSE @]
    /\ task_spawner_exit_handler' =
         [task_spawner_exit_handler EXCEPT ![g] = Tail(@)]
    /\ UNCHANGED << daemonVars, restart_signal, loaderVars, socketVars,
                    correlatorVars, children, exits_sent, failures, searches,
                    effects, retries_decided >>

\* tasks_handler.rs:100-137: take the next (login, result).  An error
\* launching the player is logged, an absent token and a success status end
\* handle_exit_status at once; any other status starts the diagnosis.
ExitHandlerRecv(g) ==
    /\ exit_handler[g].pc = "recv"
    /\ task_spawner_exit_handler[g] # << >>
    /\ LET exit == Head(task_spawner_exit_handler[g])
           diagnose == exit.result = "failure" /\ user_access_token[g] # "none"
       IN  /\ exits_taken' = [exits_taken EXCEPT ![g] = Append(@, exit)]
           /\ exit_handler' =
                [exit_handler EXCEPT
                   ![g] = IF diagnose
                          THEN [ pc |-> "request", stream_name |-> exit.login,
                                 wait_time |-> 1, sleeps |-> << >> ]
                          ELSE @]
           /\ in_diagnosis' =
                [in_diagnosis EXCEPT
                   ![g] = IF diagnose THEN Append(@, Len(exits_taken[g]) + 1)
                          ELSE @]
    /\ task_spawner_exit_handler' =
         [task_spawner_exit_handler EXCEPT ![g] = Tail(@)]
    /\ UNCHANGED << daemonVars, restart_signal, loaderVars, socketVars,
                    correlatorVars, children, exits_sent, failures, searches,
                    effects, retries_decided >>

\* A faulty Diagnoser that gives the diagnosis up when the search request
\* fails.
ExitHandlerRequestGiveUp(g) ==
    /\ exit_handler[g].pc = "request"
    /\ \E response \in provider.search_responses :
         /\ response = "network_error"
              => exit_handler[g].wait_time < 2 ^ MaxSearchErrors
         /\ searches' =
              [searches EXCEPT
                 ![g] = { t \in @ : t.exit = Len(exits_taken[g]) }
                        \cup { [ login |-> exit_handler[g].stream_name,
                                 exit |-> Len(exits_taken[g]),
                                 response |-> response ] }]
         /\ exit_handler' =
              [exit_handler EXCEPT
                 ![g] = CASE response = "live" -> [ @ EXCEPT !.pc = "send_retry" ]
                          [] response = "offline" -> @
                          [] response = "unauthorized" ->
                               [ @ EXCEPT !.pc = "send_restart" ]
                          [] OTHER -> IdleDiagnoser]
         /\ in_diagnosis' =
              [in_diagnosis EXCEPT
                 ![g] = IF response \in {"not_found", "malformed", "unexpected",
                                         "network_error"}
                        THEN Front(@) ELSE @]
         /\ retries_decided' =
              [retries_decided EXCEPT
                 ![g] = IF response = "live"
                        THEN Append(@, exit_handler[g].stream_name) ELSE @]
    /\ UNCHANGED << daemonVars, restart_signal, loaderVars, socketVars,
                    correlatorVars, spawnerVars, exits_taken, effects >>

\* tasks_handler.rs:138-212: one search request and the match on its
\* response.  A live record leads to the retry, a 401 to the restart signal;
\* a network error computes the next wait and sleeps it before the loop
\* requests again; a record that is not live falls out of the match and the
\* loop requests again at once; every other response returns.
ExitHandlerRequest(g) ==
    /\ exit_handler[g].pc = "request"
    /\ \E response \in provider.search_responses :
         /\ response = "network_error"
              => exit_handler[g].wait_time < 2 ^ MaxSearchErrors
         /\ searches' =
              [searches EXCEPT
                 ![g] = { t \in @ : t.exit = Len(exits_taken[g]) }
                        \cup { [ login |-> exit_handler[g].stream_name,
                                 exit |-> Len(exits_taken[g]),
                                 response |-> response ] }]
         /\ exit_handler' =
              [exit_handler EXCEPT
                 ![g] = CASE response = "live" -> [ @ EXCEPT !.pc = "send_retry" ]
                          [] response = "offline" -> @
                          [] response = "unauthorized" ->
                               [ @ EXCEPT !.pc = "send_restart" ]
                          [] response = "network_error" ->
                               [ @ EXCEPT
                                   !.wait_time = NextWaitTime(@),
                                   !.sleeps = LastTwo(Append(@,
                                       NextWaitTime(exit_handler[g].wait_time))) ]
                          [] OTHER -> IdleDiagnoser]
         /\ in_diagnosis' =
              [in_diagnosis EXCEPT
                 ![g] = IF response \in {"not_found", "malformed", "unexpected"}
                        THEN Front(@) ELSE @]
         /\ retries_decided' =
              [retries_decided EXCEPT
                 ![g] = IF response = "live"
                        THEN Append(@, exit_handler[g].stream_name) ELSE @]
    /\ UNCHANGED << daemonVars, restart_signal, loaderVars, socketVars,
                    correlatorVars, spawnerVars, exits_taken, effects >>

\* A faulty Diagnoser that returns on a live record without sending.
ExitHandlerDropRetry(g) ==
    /\ exit_handler[g].pc = "send_retry"
    /\ exit_handler' = [exit_handler EXCEPT ![g] = IdleDiagnoser]
    /\ in_diagnosis' = [in_diagnosis EXCEPT ![g] = Front(@)]
    /\ UNCHANGED << daemonVars, restart_signal, loaderVars, socketVars,
                    correlatorVars, spawnerVars, exits_taken, searches,
                    effects, retries_decided >>

\* tasks_handler.rs:167-173: send ("retry", login) to the Correlator, whose
\* exit task holds the receiver for as long as it runs, and return.
ExitHandlerSendRetry(g) ==
    /\ exit_handler[g].pc = "send_retry"
    /\ Len(exit_handler_event_handler[g]) < ChannelCapacity
    /\ exit_handler_event_handler' =
         [exit_handler_event_handler EXCEPT
            ![g] = Append(@, Message("retry", exit_handler[g].stream_name,
                                     exit_handler[g].stream_name
                                        \in ConfigsSent(g)))]
    /\ effects' =
         [effects EXCEPT
            ![g] = { [ exit |-> Len(exits_taken[g]), sent |-> "retry" ] }]
    /\ exit_handler' = [exit_handler EXCEPT ![g] = IdleDiagnoser]
    /\ in_diagnosis' = [in_diagnosis EXCEPT ![g] = Front(@)]
    /\ UNCHANGED << daemonVars, restart_signal, loaderVars, socketVars,
                    correlatorInnerVars, twitch_websocket_event_handler,
                    event_handler_task_spawner, spawnerVars, exits_taken,
                    searches, retries_decided >>

\* A faulty Diagnoser that returns on a 401 without raising a restart code.
ExitHandlerSkipRestart(g) ==
    /\ exit_handler[g].pc = "send_restart"
    /\ exit_handler' = [exit_handler EXCEPT ![g] = IdleDiagnoser]
    /\ in_diagnosis' = [in_diagnosis EXCEPT ![g] = Front(@)]
    /\ UNCHANGED << daemonVars, restart_signal, loaderVars, socketVars,
                    correlatorVars, spawnerVars, exits_taken, searches,
                    effects, retries_decided >>

\* tasks_handler.rs:176-177: let _ = restart_signal_sender.send(2).await and
\* return.  The send waits for room while the receiver exists and fails, the
\* error ignored, once it is dropped.
ExitHandlerSendRestart(g) ==
    /\ exit_handler[g].pc = "send_restart"
    /\ IF RestartReceiverOpen(g)
       THEN /\ Len(restart_signal[g]) < RestartCapacity
            /\ restart_signal' = [restart_signal EXCEPT ![g] = Append(@, 2)]
       ELSE UNCHANGED restart_signal
    /\ effects' =
         [effects EXCEPT
            ![g] = { [ exit |-> Len(exits_taken[g]),
                       sent |-> IF RestartReceiverOpen(g)
                                THEN "restart_2"
                                ELSE "restart_2_unreceived" ] }]
    /\ exit_handler' = [exit_handler EXCEPT ![g] = IdleDiagnoser]
    /\ in_diagnosis' = [in_diagnosis EXCEPT ![g] = Front(@)]
    /\ UNCHANGED << daemonVars, loaderVars, socketVars, correlatorVars,
                    spawnerVars, exits_taken, searches, retries_decided >>

\* ------------------------------------------------------ WebSocket Session ---
\* twitch_socket.rs:351  const MAX_WAIT: Duration = Duration::new(180, 0)
MAX_WAIT == 180

\* The session ids the provider's welcome frames carry: never empty.
SessionIds == {"AgoQ"}

\* api_structs.rs:129-135: the event types of a notification; the code
\* tells live from the others.
EventTypes == {"live", "rerun"}

\* The subscription types a notification can name; the daemon subscribes to
\* stream.online only (twitch_socket.rs:296).
SubscriptionTypes == {"stream.online", "stream.offline"}

\* api_structs.rs:98-103: the status of a revoked subscription.
SubscriptionStatuses ==
    {"enabled", "authorization_revoked", "user_removed", "version_removed"}

\* What ws_stream.next() under its 15 s timeout can hand the reader
\* (twitch_socket.rs:129-131, 159-185, 197-343):
\*   timeout       no frame in time, or the stream has ended
\*   error         a read error
\*   ping, pong    control frames
\*   binary        a frame that is not text
\*   malformed     text that is not the provider's JSON
\*   keepalive     session_keepalive
\*   welcome       session_welcome with a session id
\*   reconnect_*   session_reconnect, the dial of its url succeeding or not
\*   notification  of a subscription type and an event type, for a login
\*   revocation    of a subscription, with its status
Frames ==
    { << "timeout" >>, << "error" >>, << "ping" >>, << "pong" >>,
      << "binary" >>, << "malformed" >>, << "keepalive" >>,
      << "reconnect_ok" >>, << "reconnect_failed" >> }
    \cup { << "welcome", sid >> : sid \in SessionIds }
    \cup { << "notification", type, event, login >> :
             type \in SubscriptionTypes, event \in EventTypes,
             login \in Logins }
    \cup { << "revocation", status >> : status \in SubscriptionStatuses }

\* twitch_socket.rs:296-298: the notifications that announce a stream.
IsLive(frame) ==
    /\ frame[1] = "notification"
    /\ frame[2] = "stream.online"
    /\ frame[3] = "live"

\* The reader as spawned (twitch_socket.rs:70-71).
ReaderStart ==
    [ pc |-> "wait_signal", time |-> 1, sleeps |-> << >>, code |-> 0,
      then |-> "", login |-> "", stream |-> "" ]

\* The subscriber as spawned (twitch_socket.rs:82-83).
SubscriberStart ==
    [ pc |-> "wait_id", id |-> 0, session_id |-> "", sleeps |-> << >> ]

\* twitch_socket.rs:363-367: the wait before the next dial.
NextTime(time) ==
    IF time < MAX_WAIT THEN time * 2
    ELSE IF time > MAX_WAIT THEN MAX_WAIT
    ELSE time

\* twitch_socket.rs:71: the reader is released by the subscriber's signal.
ReaderRecvSignal(g) ==
    /\ stream_reader[g].pc = "wait_signal"
    /\ first_name_signal[g] # << >>
    /\ first_name_signal' = [first_name_signal EXCEPT ![g] = Tail(@)]
    /\ stream_reader' = [stream_reader EXCEPT ![g].pc = "dial"]
    /\ UNCHANGED << daemonVars, restart_signal, loaderVars,
                    websocket_session_id, subscriber, posts,
                    correlatorVars, spawnerVars, diagnoserVars >>

\* twitch_socket.rs:119-126: the first dial; a failure enters
\* reconnect_websocket with time = 1.
ReaderDial(g) ==
    /\ stream_reader[g].pc = "dial"
    /\ \E connected \in provider.dials :
         stream_reader' =
           [stream_reader EXCEPT
              ![g] = IF connected
                     THEN [ @ EXCEPT !.pc = "read",
                                     !.stream = "websocket_url" ]
                     ELSE [ @ EXCEPT !.pc = "redial", !.time = 1,
                                     !.sleeps = << >> ]]
    /\ UNCHANGED << daemonVars, restart_signal, loaderVars,
                    first_name_signal, websocket_session_id, subscriber,
                    posts, correlatorVars, spawnerVars,
                    diagnoserVars >>

\* twitch_socket.rs:356-375: a dial of reconnect_websocket; a failure
\* computes the next wait and sleeps it before the next dial.
ReaderRedial(g) ==
    /\ stream_reader[g].pc = "redial"
    /\ \E connected \in provider.dials :
         stream_reader' =
           [stream_reader EXCEPT
              ![g] = IF connected
                     THEN [ @ EXCEPT !.pc = "read",
                                     !.stream = "websocket_url" ]
                     ELSE [ @ EXCEPT
                              !.time = NextTime(@),
                              !.sleeps = LastTwo(Append(@,
                                  NextTime(stream_reader[g].time))) ]]
    /\ UNCHANGED << daemonVars, restart_signal, loaderVars,
                    first_name_signal, websocket_session_id, subscriber,
                    posts, correlatorVars, spawnerVars,
                    diagnoserVars >>

\* A faulty reader that reads on after a timeout or a read error.
AfterFrameTimeoutReadsOn(reader, frame) ==
    CASE frame[1] \in {"timeout", "error"} ->
           [ reader EXCEPT !.pc = "send_restart", !.code = 1, !.then = "read" ]
      [] frame[1] = "binary" -> [ reader EXCEPT !.pc = "done" ]
      [] frame[1] = "malformed" -> [ reader EXCEPT !.pc = "panicked" ]
      [] frame[1] = "reconnect_ok" ->
           [ reader EXCEPT !.stream = "reconnect_url" ]
      [] frame[1] = "reconnect_failed" ->
           [ reader EXCEPT !.pc = "send_restart", !.code = 1, !.then = "read" ]
      [] frame[1] = "revocation" /\ frame[2] = "authorization_revoked" ->
           [ reader EXCEPT !.pc = "send_restart", !.code = 2, !.then = "read" ]
      [] IsLive(frame) ->
           [ reader EXCEPT !.pc = "send_live", !.login = frame[4] ]
      [] OTHER -> reader

\* A faulty reader that announces a stream on every stream.online
\* notification, whatever its event type.
AfterFrameAnyEvent(reader, frame) ==
    CASE frame[1] \in {"timeout", "error"} ->
           [ reader EXCEPT !.pc = "send_restart", !.code = 1, !.then = "done" ]
      [] frame[1] = "binary" -> [ reader EXCEPT !.pc = "done" ]
      [] frame[1] = "malformed" -> [ reader EXCEPT !.pc = "panicked" ]
      [] frame[1] = "reconnect_ok" ->
           [ reader EXCEPT !.stream = "reconnect_url" ]
      [] frame[1] = "reconnect_failed" ->
           [ reader EXCEPT !.pc = "send_restart", !.code = 1, !.then = "read" ]
      [] frame[1] = "revocation" /\ frame[2] = "authorization_revoked" ->
           [ reader EXCEPT !.pc = "send_restart", !.code = 2, !.then = "read" ]
      [] frame[1] = "notification" /\ frame[2] = "stream.online" ->
           [ reader EXCEPT !.pc = "send_live", !.login = frame[4] ]
      [] OTHER -> reader

\* A faulty reader that moves to the new connection and asks for a restart
\* all the same.
AfterFrameReconnectRestarts(reader, frame) ==
    CASE frame[1] \in {"timeout", "error"} ->
           [ reader EXCEPT !.pc = "send_restart", !.code = 1, !.then = "done" ]
      [] frame[1] = "binary" -> [ reader EXCEPT !.pc = "done" ]
      [] frame[1] = "malformed" -> [ reader EXCEPT !.pc = "panicked" ]
      [] frame[1] = "reconnect_ok" ->
           [ reader EXCEPT !.stream = "reconnect_url", !.pc = "send_restart",
                           !.code = 1, !.then = "read" ]
      [] frame[1] = "reconnect_failed" ->
           [ reader EXCEPT !.pc = "send_restart", !.code = 1, !.then = "read" ]
      [] frame[1] = "revocation" /\ frame[2] = "authorization_revoked" ->
           [ reader EXCEPT !.pc = "send_restart", !.code = 2, !.then = "read" ]
      [] IsLive(frame) ->
           [ reader EXCEPT !.pc = "send_live", !.login = frame[4] ]
      [] OTHER -> reader

\* The reader after a frame (twitch_socket.rs:128-149, 152-343).  A restart
\* code is sent next where the code sends one; `then` is where the reader
\* goes after the send: it returns after a timeout or a read error and reads
\* on after a failed reconnect or a revocation.  A reconnect that dials
\* replaces ws_stream (twitch_socket.rs:262-263).
AfterFrame(reader, frame) ==
    CASE frame[1] \in {"timeout", "error"} ->
           [ reader EXCEPT !.pc = "send_restart", !.code = 1, !.then = "done" ]
      [] frame[1] = "binary" -> [ reader EXCEPT !.pc = "done" ]
      [] frame[1] = "malformed" -> [ reader EXCEPT !.pc = "panicked" ]
      [] frame[1] = "reconnect_ok" ->
           [ reader EXCEPT !.stream = "reconnect_url" ]
      [] frame[1] = "reconnect_failed" ->
           [ reader EXCEPT !.pc = "send_restart", !.code = 1, !.then = "read" ]
      [] frame[1] = "revocation" /\ frame[2] = "authorization_revoked" ->
           [ reader EXCEPT !.pc = "send_restart", !.code = 2, !.then = "read" ]
      [] IsLive(frame) ->
           [ reader EXCEPT !.pc = "send_live", !.login = frame[4] ]
      [] OTHER -> reader

\* twitch_socket.rs:129-143: the reader is handed the next frame, or none
\* within the timeout.  A welcome stores its session id in the cell
\* (twitch_socket.rs:228-239).
ReaderRead(g) ==
    /\ stream_reader[g].pc = "read"
    /\ \E frame \in provider.frames :
         /\ IsLive(frame) => events_sent < MaxEvents
         /\ events_sent' =
              IF IsLive(frame) THEN events_sent + 1 ELSE events_sent
         /\ websocket_session_id' =
              [websocket_session_id EXCEPT
                 ![g] = IF frame[1] = "welcome" THEN frame[2] ELSE @]
         /\ stream_reader' =
              [stream_reader EXCEPT ![g] = AfterFrame(@, frame)]
    /\ UNCHANGED << daemonVars, restart_signal, loaderVars,
                    first_name_signal, subscriber, posts, correlatorTaskVars,
                    twitch_websocket_event_handler,
                    exit_handler_event_handler, event_handler_task_spawner,
                    spawnerVars, diagnoserVars >>

\* twitch_socket.rs:299-306: send ("live", login) to the Correlator.
ReaderSendLive(g) ==
    /\ stream_reader[g].pc = "send_live"
    /\ Len(twitch_websocket_event_handler[g]) < ChannelCapacity
    /\ twitch_websocket_event_handler' =
         [twitch_websocket_event_handler EXCEPT
            ![g] = Append(@, Message("live", stream_reader[g].login,
                                     stream_reader[g].login
                                        \in ConfigsSent(g)))]
    /\ stream_reader' =
         [stream_reader EXCEPT ![g] = [ @ EXCEPT !.pc = "read", !.login = "" ]]
    /\ UNCHANGED << daemonVars, restart_signal, loaderVars,
                    first_name_signal, websocket_session_id, subscriber,
                    posts, correlatorInnerVars,
                    exit_handler_event_handler, event_handler_task_spawner,
                    spawnerVars, diagnoserVars >>

\* twitch_socket.rs:146, 182, 268, 320: let _ = restart_signal_sender
\* .send(code).await: waits for room while the receiver exists, fails with
\* the error ignored once it is dropped.
ReaderSendRestart(g) ==
    /\ stream_reader[g].pc = "send_restart"
    /\ IF RestartReceiverOpen(g)
       THEN /\ Len(restart_signal[g]) < RestartCapacity
            /\ restart_signal' =
                 [restart_signal EXCEPT
                    ![g] = Append(@, stream_reader[g].code)]
       ELSE UNCHANGED restart_signal
    /\ stream_reader' =
         [stream_reader EXCEPT
            ![g] = [ @ EXCEPT !.pc = stream_reader[g].then, !.code = 0,
                              !.then = "" ]]
    /\ UNCHANGED << daemonVars, loaderVars, first_name_signal,
                    websocket_session_id, subscriber, posts,
                    correlatorVars, spawnerVars, diagnoserVars >>

\* A faulty subscriber that releases the reader without waiting for an id.
SubscriberSignalAtOnce(g) ==
    /\ subscriber[g].pc = "wait_id"
    /\ first_name_signal' = [first_name_signal EXCEPT ![g] = Append(@, "()")]
    /\ subscriber' = [subscriber EXCEPT ![g].pc = "wait_session"]
    /\ UNCHANGED << daemonVars, restart_signal, loaderVars,
                    websocket_session_id, stream_reader, posts,
                    correlatorVars, spawnerVars, diagnoserVars >>

\* twitch_socket.rs:83-86: once the id channel holds an id, the subscriber
\* signals the reader, which holds the receiver of the one-slot channel.
SubscriberSignal(g) ==
    /\ subscriber[g].pc = "wait_id"
    /\ file_watcher_twitch_websocket[g] # << >>
    /\ first_name_signal' = [first_name_signal EXCEPT ![g] = Append(@, "()")]
    /\ subscriber' = [subscriber EXCEPT ![g].pc = "wait_session"]
    /\ UNCHANGED << daemonVars, restart_signal, loaderVars,
                    websocket_session_id, stream_reader, posts,
                    correlatorVars, spawnerVars, diagnoserVars >>

\* A faulty subscriber that does not wait for the session id.
SubscriberSessionAssumed(g) ==
    /\ subscriber[g].pc = "wait_session"
    /\ subscriber' = [subscriber EXCEPT ![g].pc = "recv"]
    /\ UNCHANGED << daemonVars, restart_signal, loaderVars,
                    first_name_signal, websocket_session_id, stream_reader,
                    posts, correlatorVars, spawnerVars,
                    diagnoserVars >>

\* twitch_socket.rs:87-94: the poll of the session-id cell ends when the
\* cell is not empty.
SubscriberSessionKnown(g) ==
    /\ subscriber[g].pc = "wait_session"
    /\ websocket_session_id[g] # ""
    /\ subscriber' = [subscriber EXCEPT ![g].pc = "recv"]
    /\ UNCHANGED << daemonVars, restart_signal, loaderVars,
                    first_name_signal, websocket_session_id, stream_reader,
                    posts, correlatorVars, spawnerVars,
                    diagnoserVars >>

\* twitch_socket.rs:95, 390-396: take the next id and read the cell into the
\* subscription body; the loop ends when the loader has dropped its sender
\* and the channel is empty.
SubscriberRecv(g) ==
    /\ subscriber[g].pc = "recv"
    /\ ~ReceiverGone(g, "file_watcher_twitch_websocket")
    /\ IF file_watcher_twitch_websocket[g] # << >>
       THEN /\ subscriber' =
                 [subscriber EXCEPT
                    ![g] = [ pc |-> "post",
                             id |-> Head(file_watcher_twitch_websocket[g]),
                             session_id |-> websocket_session_id[g],
                             sleeps |-> << >> ]]
            /\ file_watcher_twitch_websocket' =
                 [file_watcher_twitch_websocket EXCEPT ![g] = Tail(@)]
       ELSE /\ file_watcher[g].pc = "done"
            /\ subscriber' = [subscriber EXCEPT ![g].pc = "done"]
            /\ UNCHANGED file_watcher_twitch_websocket
    /\ UNCHANGED << daemonVars, restart_signal, file_watcher,
                    file_watcher_event_handler, ids_sent, configs_sent,
                    first_name_signal, websocket_session_id, stream_reader,
                    posts, correlatorVars, spawnerVars,
                    diagnoserVars >>

\* What the subscription POST of twitch_socket.rs:399-411 can come back
\* with: 202, 401, another status, no response.
SubscribeResponses == {"accepted", "unauthorized", "rejected", "network_error"}

\* A faulty subscriber that posts again after a status other than 202 and
\* 401.
SubscriberPostRetryRejected(g) ==
    /\ subscriber[g].pc = "post"
    /\ \E response \in provider.subscribe_responses :
         /\ posts' =
              [posts EXCEPT
                 ![g] = @ \cup { [ id |-> subscriber[g].id,
                                   session_id |-> subscriber[g].session_id ] }]
         /\ subscriber' =
              [subscriber EXCEPT
                 ![g] = CASE response = "unauthorized" ->
                               [ @ EXCEPT !.pc = "send_restart" ]
                          [] response \in {"network_error", "rejected"} ->
                               [ @ EXCEPT !.sleeps = LastTwo(Append(@, 1)) ]
                          [] OTHER -> [ @ EXCEPT !.pc = "recv" ]]
    /\ UNCHANGED << daemonVars, restart_signal, loaderVars,
                    first_name_signal, websocket_session_id, stream_reader,
                    correlatorVars, spawnerVars, diagnoserVars >>

\* twitch_socket.rs:398-448: one POST and the match on its response.  The
\* wait computed at 440-444 is discarded: after a network error the sleep
\* is `time`, one second, and the loop posts again.
SubscriberPost(g) ==
    /\ subscriber[g].pc = "post"
    /\ \E response \in provider.subscribe_responses :
         /\ posts' =
              [posts EXCEPT
                 ![g] = @ \cup { [ id |-> subscriber[g].id,
                                   session_id |-> subscriber[g].session_id ] }]
         /\ subscriber' =
              [subscriber EXCEPT
                 ![g] = CASE response = "unauthorized" ->
                               [ @ EXCEPT !.pc = "send_restart" ]
                          [] response = "network_error" ->
                               [ @ EXCEPT !.sleeps = LastTwo(Append(@, 1)) ]
                          [] OTHER -> [ @ EXCEPT !.pc = "recv" ]]
    /\ UNCHANGED << daemonVars, restart_signal, loaderVars,
                    first_name_signal, websocket_session_id, stream_reader,
                    correlatorVars, spawnerVars, diagnoserVars >>

\* twitch_socket.rs:415-416: let _ = restart_signal_sender.send(2).await;
\* the break leaves subscribe_to_event and the subscriber takes the next id.
SubscriberSendRestart(g) ==
    /\ subscriber[g].pc = "send_restart"
    /\ IF RestartReceiverOpen(g)
       THEN /\ Len(restart_signal[g]) < RestartCapacity
            /\ restart_signal' = [restart_signal EXCEPT ![g] = Append(@, 2)]
       ELSE UNCHANGED restart_signal
    /\ subscriber' = [subscriber EXCEPT ![g].pc = "recv"]
    /\ UNCHANGED << daemonVars, loaderVars, first_name_signal,
                    websocket_session_id, stream_reader, posts,
                    correlatorVars, spawnerVars, diagnoserVars >>

\* ------------------------------------------------------------- Supervisor ---
\* A faulty run() that hands the actor group the token it held before the
\* validation.
SupervisorValidateStaleToken ==
    /\ supervisor = "validate"
    /\ \E valid \in provider.validations :
         IF valid
         THEN /\ group_count < MaxGroups
              /\ token' = "token"
              /\ group_count' = group_count + 1
              /\ user_access_token' =
                   [user_access_token EXCEPT ![group_count + 1] = token]
              /\ supervisor' = "wait"
         ELSE /\ supervisor' = "sleep"
              /\ UNCHANGED << token, group_count, user_access_token >>
    /\ UNCHANGED << settings, streams, provider, receivers_dropped, restarts,
                    restart_signal, loaderVars, socketVars,
                    correlatorVars, spawnerVars, diagnoserVars >>

\* stream-caved.rs:50-60: validate the token.  On Ok the token is wrapped in
\* an Arc and, with no await in between, the first actor group of this token
\* is built (stream-caved.rs:61-133); on Err run() sleeps 60 s.
SupervisorValidate ==
    /\ supervisor = "validate"
    /\ \E valid \in provider.validations :
         IF valid
         THEN /\ group_count < MaxGroups
              /\ token' = "token"
              /\ group_count' = group_count + 1
              /\ user_access_token' =
                   [user_access_token EXCEPT ![group_count + 1] = "token"]
              /\ supervisor' = "wait"
         ELSE /\ supervisor' = "sleep"
              /\ UNCHANGED << token, group_count, user_access_token >>
    /\ UNCHANGED << settings, streams, provider, receivers_dropped, restarts, restart_signal,
                    loaderVars,
                    socketVars,
                    correlatorVars, spawnerVars, diagnoserVars >>

\* stream-caved.rs:56: the 60 s are over.
SupervisorSleep ==
    /\ supervisor = "sleep"
    /\ supervisor' = "validate"
    /\ UNCHANGED << settings, streams, provider, receivers_dropped, group_count, token,
                    user_access_token, restarts,
                    restart_signal, loaderVars, socketVars, correlatorVars,
                    spawnerVars, diagnoserVars >>

\* The values the restart channel carries (Sender<u8>): the two codes the
\* actors raise, and 3 for every value run() does not recognize.
RestartCodes == {1, 2, 3}

\* A holder of a clone of group g's restart sender (stream-caved.rs:82-84)
\* puts a code on the channel while run() holds the receiver.
RestartSenderSend(g) ==
    /\ RestartReceiverOpen(g)
    /\ Len(restart_signal[g]) < RestartCapacity
    /\ \E code \in RestartCodes :
         restart_signal' = [restart_signal EXCEPT ![g] = Append(@, code)]
    /\ UNCHANGED << daemonVars, loaderVars, socketVars, correlatorVars,
                    spawnerVars, diagnoserVars >>

\* A faulty run() that goes back to validation on code 2 with the token it
\* had.
SupervisorRecvKeepToken ==
    /\ supervisor = "wait"
    /\ restart_signal[group_count] # << >>
    /\ restart_signal' = [restart_signal EXCEPT ![group_count] = Tail(@)]
    /\ restarts' = Append(restarts, Head(restart_signal[group_count]))
    /\ IF Head(restart_signal[group_count]) = 2
       THEN /\ supervisor' = "validate"
            /\ UNCHANGED << token, group_count, user_access_token >>
       ELSE /\ group_count < MaxGroups
            /\ group_count' = group_count + 1
            /\ user_access_token' =
                 [user_access_token EXCEPT ![group_count + 1] = token]
            /\ UNCHANGED << supervisor, token >>
    /\ UNCHANGED << settings, streams, provider, receivers_dropped, loaderVars, socketVars,
                    correlatorVars, spawnerVars, diagnoserVars >>

\* stream-caved.rs:135-143: a restart code arrives.  2 leaves the inner loop:
\* the token is dropped and validated again.  1, and any code that is not
\* recognized, goes round the inner loop: a new actor group is built with the
\* same token.  The tasks of the old group are not stopped.
SupervisorRecv ==
    /\ supervisor = "wait"
    /\ restart_signal[group_count] # << >>
    /\ restart_signal' = [restart_signal EXCEPT ![group_count] = Tail(@)]
    /\ restarts' = Append(restarts, Head(restart_signal[group_count]))
    /\ IF Head(restart_signal[group_count]) = 2
       THEN /\ supervisor' = "validate"
            /\ token' = "none"
            /\ UNCHANGED << group_count, user_access_token >>
       ELSE /\ group_count < MaxGroups
            /\ group_count' = group_count + 1
            /\ user_access_token' =
                 [user_access_token EXCEPT ![group_count + 1] = token]
            /\ UNCHANGED << supervisor, token >>
    /\ UNCHANGED << settings, streams, provider, receivers_dropped, loaderVars, socketVars,
                    correlatorVars, spawnerVars, diagnoserVars >>

\* -------------------------------------------------------- initial states ---
\* A network and a provider that can fail and answer in every way the code
\* distinguishes.
AnyProvider ==
    [ validations |-> BOOLEAN, dials |-> BOOLEAN, frames |-> Frames,
      subscribe_responses |-> SubscribeResponses,
      search_responses |-> SearchResponses ]

\* A provider that is reachable, sends no notification and accepts every
\* subscription: its connections welcome and go silent.
QuietProvider ==
    [ validations |-> BOOLEAN, dials |-> {TRUE},
      frames |-> { << "timeout" >> }
                 \cup { << "welcome", sid >> : sid \in SessionIds },
      subscribe_responses |-> {"accepted"},
      search_responses |-> SearchResponses ]

\* A provider that keeps the session on its first connection and sends the
\* frames on which the reader does more than read on.
SessionProvider ==
    [ AnyProvider EXCEPT
        !.frames = { frame \in Frames :
                       \/ frame[1] = "welcome"
                       \/ AfterFrame(ReaderStart, frame).pc # ReaderStart.pc } ]

\* A provider about to send one frame, or to stay silent.
ProviderSays(frame) == [ AnyProvider EXCEPT !.frames = {frame} ]

\* The provider makes up its mind about the next frame on a connection that
\* a reader is waiting on.
ProviderNext ==
    /\ \E g \in Running : stream_reader[g].pc = "read"
    /\ \E frame \in Frames : provider' = ProviderSays(frame)
    /\ UNCHANGED << settings, streams, group_count, supervisor, token,
                    user_access_token, receivers_dropped, restarts,
                    restart_signal, loaderVars,
                    socketVars, correlatorVars, spawnerVars, diagnoserVars >>

\* A provider that welcomes, goes silent, and is about to answer the next
\* subscription request in one way.
ProviderAnswers(response) ==
    [ QuietProvider EXCEPT !.subscribe_responses = {response} ]

\* The provider and the network make up their mind about the request that
\* a subscriber is about to send.
ProviderNextAnswer ==
    /\ \E g \in Running : subscriber[g].pc = "post"
    /\ \E response \in SubscribeResponses :
         provider' = ProviderAnswers(response)
    /\ UNCHANGED << settings, streams, group_count, supervisor, token,
                    user_access_token, receivers_dropped, restarts,
                    restart_signal, loaderVars,
                    socketVars, correlatorVars, spawnerVars, diagnoserVars >>

\* The Scheduler Loader of every group as spawned, nothing sent.
InitLoader ==
    /\ file_watcher = [g \in Groups |-> FileWatcherStart(streams)]
    /\ file_watcher_twitch_websocket = [g \in Groups |-> << >>]
    /\ file_watcher_event_handler = [g \in Groups |-> << >>]
    /\ streamer_configs = [g \in Groups |-> << >>]
    /\ ids_sent = [g \in Groups |-> << >>]
    /\ configs_sent = [g \in Groups |-> << >>]

\* The first group once its Scheduler Loader has returned and every id and
\* config it sent has been taken: the table holds the schedule.
InitLoaded ==
    /\ file_watcher =
         [g \in Groups |->
            IF g = 1 THEN [ pc |-> "done", i |-> Len(streams) + 1 ]
            ELSE FileWatcherStart(streams)]
    /\ file_watcher_twitch_websocket = [g \in Groups |-> << >>]
    /\ file_watcher_event_handler = [g \in Groups |-> << >>]
    /\ streamer_configs = [g \in Groups |-> IF g = 1 THEN streams ELSE << >>]
    /\ ids_sent =
         [g \in Groups |->
            IF g = 1 THEN [i \in DOMAIN streams |-> streams[i].id] ELSE << >>]
    /\ configs_sent = [g \in Groups |-> IF g = 1 THEN streams ELSE << >>]

\* Every other task of every actor group as stream-caved.rs:61-133 builds
\* it: empty channels with both ends held, an empty session-id cell, every
\* task at its first statement.
InitGroups ==
    /\ twitch_websocket_event_handler = [g \in Groups |-> << >>]
    /\ exit_handler_event_handler = [g \in Groups |-> << >>]
    /\ event_handler_task_spawner = [g \in Groups |-> << >>]
    /\ task_spawner_exit_handler = [g \in Groups |-> << >>]
    /\ restart_signal = [g \in Groups |-> << >>]
    /\ receivers_dropped = [g \in Groups |-> {}]
    /\ first_name_signal = [g \in Groups |-> << >>]
    /\ websocket_session_id = [g \in Groups |-> ""]
    /\ stream_reader = [g \in Groups |-> ReaderStart]
    /\ subscriber = [g \in Groups |-> SubscriberStart]
    /\ socket_task = [g \in Groups |-> IdleTask]
    /\ exit_task = [g \in Groups |-> IdleTask]
    /\ children = [g \in Groups |-> EmptyBag]
    /\ exit_handler = [g \in Groups |-> IdleDiagnoser]
    /\ posts = [g \in Groups |-> {}]
    /\ socket_received = [g \in Groups |-> << >>]
    /\ socket_emitted = [g \in Groups |-> << >>]
    /\ exit_emitted = [g \in Groups |-> << >>]
    /\ play_requests = [g \in Groups |-> {}]
    /\ events_sent = 0
    /\ exits_sent = [g \in Groups |-> << >>]
    /\ exits_taken = [g \in Groups |-> << >>]
    /\ in_diagnosis = [g \in Groups |-> << >>]
    /\ searches = [g \in Groups |-> {}]
    /\ effects = [g \in Groups |-> {}]
    /\ retries_decided = [g \in Groups |-> << >>]
    /\ failures = 0

\* run() waiting on the restart channel of its first actor group
\* (stream-caved.rs:135), the token validated.
InitFirstGroup ==
    /\ group_count = 1
    /\ supervisor = "wait"
    /\ token = "token"
    /\ user_access_token = [g \in Groups |-> IF g = 1 THEN "token" ELSE "none"]
    /\ restarts = << >>
    /\ InitGroups

\* The Event Correlator of the first group, fed by the Scheduler Loader and
\* by its tests' senders, for every Settings and Streams value.
InitCorrelator ==
    /\ settings \in [ player : {"Mpv"}, profile : SettingsProfiles ]
    /\ streams \in StreamsValues
    /\ provider = AnyProvider
    /\ InitFirstGroup
    /\ InitLoader

NextCorrelator ==
    \/ \E g \in Running : FileWatcherSendId(g)
    \/ \E g \in Running : FileWatcherSendConfig(g)
    \/ \E g \in Running : FileTaskRecv(g)
    \/ \E g \in Running : SocketSenderSend(g)
    \/ \E g \in Running : ExitSenderSend(g)
    \/ \E g \in Running : SocketTaskRecv(g)
    \/ \E g \in Running : SocketTaskLookup(g)
    \/ \E g \in Running : SocketTaskSend(g)
    \/ \E g \in Running : ExitTaskRecv(g)
    \/ \E g \in Running : ExitTaskLookup(g)
    \/ \E g \in Running : ExitTaskSend(g)

SpecCorrelator == InitCorrelator /\ [][NextCorrelator]_vars

\* The schedules that differ in their logins and ids only: every config
\* overrides both profiles.
Schedules ==
    { s \in StreamsValues :
        \A i \in DOMAIN s : Len(s[i].quality_overides) = 2 }

\* One WebSocket Session: that of the first actor group, fed by its
\* Scheduler Loader, while run() takes the restart codes.
InitSession ==
    /\ settings = [ player |-> "Mpv", profile |-> << "normal", 1080 >> ]
    /\ streams \in Schedules
    /\ provider = SessionProvider
    /\ InitFirstGroup
    /\ InitLoader

NextSession ==
    \/ FileWatcherSendId(1)
    \/ FileWatcherSendConfig(1)
    \/ ReaderRecvSignal(1)
    \/ ReaderDial(1)
    \/ ReaderRedial(1)
    \/ ReaderRead(1)
    \/ ReaderSendLive(1)
    \/ ReaderSendRestart(1)
    \/ SubscriberSignal(1)
    \/ SubscriberSessionKnown(1)
    \/ SubscriberRecv(1)
    \/ SubscriberPost(1)
    \/ SubscriberSendRestart(1)
    \/ SupervisorRecv

SpecSession == InitSession /\ [][NextSession]_vars

\* The channels whose receiver is held by a task that the Scheduler Loader
\* or the Event Correlator sends to.
DownstreamChannels ==
    { "file_watcher_twitch_websocket", "file_watcher_event_handler",
      "event_handler_task_spawner" }

\* The holder of a receiver lets go of it: the task that owns it is gone.
ReceiverDrop(g) ==
    /\ \E channel \in DownstreamChannels \ receivers_dropped[g] :
         receivers_dropped' =
           [receivers_dropped EXCEPT ![g] = @ \cup {channel}]
    /\ UNCHANGED << settings, streams, provider, group_count, supervisor,
                    token, user_access_token, restarts, restart_signal,
                    loaderVars, socketVars, correlatorVars, spawnerVars,
                    diagnoserVars >>

\* The Scheduler Loader and the notification task of the Event Correlator
\* of the first actor group, called as their tests call them, while the
\* receivers of the channels they send on go away one after the other.
InitShutdown ==
    /\ settings = [ player |-> "Mpv", profile |-> << "normal", 1080 >> ]
    /\ streams \in Schedules
    /\ provider = AnyProvider
    /\ InitFirstGroup
    /\ InitLoader

NextShutdown ==
    \/ FileWatcherSendId(1)
    \/ FileWatcherSendConfig(1)
    \/ SocketSenderSend(1)
    \/ SocketTaskRecv(1)
    \/ SocketTaskLookup(1)
    \/ SocketTaskSend(1)
    \/ ReceiverDrop(1)

SpecShutdown == InitShutdown /\ [][NextShutdown]_vars

\* The schedule of the pipeline: one login has a config, the other has none.
PipelineStreams ==
    << StreamConfig("kaicenat", << << "low-data", 0 >>, << "normal", 480 >> >>) >>

\* The frame reader of the first actor group, released by the subscriber
\* once the Scheduler Loader has sent an id, against a provider that chooses
\* every frame, while run() takes the restart codes.
InitReader ==
    /\ settings = [ player |-> "Mpv", profile |-> << "normal", 1080 >> ]
    /\ streams = PipelineStreams
    /\ provider \in { ProviderSays(frame) : frame \in Frames }
    /\ InitFirstGroup
    /\ InitLoader

NextReader ==
    \/ FileWatcherSendId(1)
    \/ SubscriberSignal(1)
    \/ ReaderRecvSignal(1)
    \/ ReaderDial(1)
    \/ ReaderRedial(1)
    \/ ReaderRead(1)
    \/ ReaderSendLive(1)
    \/ ReaderSendRestart(1)
    \/ SupervisorRecv
    \/ ProviderNext

SpecReader == InitReader /\ [][NextReader]_vars

\* The WebSocket Session of the first group, the answer to each subscription
\* request chosen by the provider before the request is sent.
InitSubscribe ==
    /\ settings = [ player |-> "Mpv", profile |-> << "normal", 1080 >> ]
    /\ streams \in Schedules
    /\ provider \in { ProviderAnswers(response) :
                         response \in SubscribeResponses }
    /\ InitFirstGroup
    /\ InitLoader

NextSubscribe ==
    \/ FileWatcherSendId(1)
    \/ FileWatcherSendConfig(1)
    \/ SubscriberSignal(1)
    \/ ReaderRecvSignal(1)
    \/ ReaderDial(1)
    \/ ReaderRead(1)
    \/ ReaderSendRestart(1)
    \/ SubscriberSessionKnown(1)
    \/ SubscriberRecv(1)
    \/ SubscriberPost(1)
    \/ SubscriberSendRestart(1)
    \/ SupervisorRecv
    \/ ProviderNextAnswer

SpecSubscribe == InitSubscribe /\ [][NextSubscribe]_vars

\* run() at its start (stream-caved.rs:47-50): no token, no actor group.
InitSupervisor ==
    /\ settings = [ player |-> "Mpv", profile |-> << "normal", 1080 >> ]
    /\ streams \in Schedules
    /\ provider = QuietProvider
    /\ group_count = 0
    /\ supervisor = "validate"
    /\ token = "none"
    /\ user_access_token = [g \in Groups |-> "none"]
    /\ restarts = << >>
    /\ InitGroups
    /\ InitLoader

\* The supervisor with the Scheduler Loader and the WebSocket Session of
\* every actor group it builds, against the quiet provider: every restart
\* is a restart with code 1.  The tasks of a group that was restarted keep
\* running.
NextSupervisor ==
    \/ SupervisorValidate
    \/ SupervisorSleep
    \/ SupervisorRecv
    \/ \E g \in Running : FileWatcherSendId(g)
    \/ \E g \in Running : FileWatcherSendConfig(g)
    \/ \E g \in Running : ReaderRecvSignal(g)
    \/ \E g \in Running : ReaderDial(g)
    \/ \E g \in Running : ReaderRead(g)
    \/ \E g \in Running : ReaderSendRestart(g)
    \/ \E g \in Running : SubscriberSignal(g)
    \/ \E g \in Running : SubscriberSessionKnown(g)
    \/ \E g \in Running : SubscriberRecv(g)
    \/ \E g \in Running : SubscriberPost(g)

SpecSupervisor == InitSupervisor /\ [][NextSupervisor]_vars

\* run() alone with the restart channel of the group it waits on: whoever
\* holds a sender may put any value on it.  Of the actors only the Scheduler
\* Loader of every group built is followed.
NextRestart ==
    \/ SupervisorValidate
    \/ SupervisorSleep
    \/ SupervisorRecv
    \/ \E g \in Running : RestartSenderSend(g)
    \/ \E g \in Running : FileWatcherSendId(g)
    \/ \E g \in Running : FileWatcherSendConfig(g)

SpecRestart == InitSupervisor /\ [][NextRestart]_vars

\* The runtime runs every task that can take a step, in every group built.
FairSupervisor ==
    /\ WF_vars(SupervisorRecv)
    /\ \A g \in Groups : WF_vars(FileWatcherSendId(g))
    /\ \A g \in Groups : WF_vars(FileWatcherSendConfig(g))
    /\ \A g \in Groups : WF_vars(ReaderRecvSignal(g))
    /\ \A g \in Groups : WF_vars(ReaderDial(g))
    /\ \A g \in Groups : WF_vars(ReaderRead(g))
    /\ \A g \in Groups : WF_vars(ReaderSendRestart(g))
    /\ \A g \in Groups : WF_vars(SubscriberSignal(g))
    /\ \A g \in Groups : WF_vars(SubscriberSessionKnown(g))
    /\ \A g \in Groups : WF_vars(SubscriberRecv(g))
    /\ \A g \in Groups : WF_vars(SubscriberPost(g))

\* The supervisor and the groups it builds, every task scheduled fairly.
SpecTeardown == InitSupervisor /\ [][NextSupervisor]_vars /\ FairSupervisor

\* The first actor group with its table loaded.
InitPipeline ==
    /\ settings = [ player |-> "Mpv", profile |-> << "normal", 1080 >> ]
    /\ streams = PipelineStreams
    /\ provider = AnyProvider
    /\ InitFirstGroup
    /\ InitLoaded

\* The Correlator, the Player Spawner with its children and the Exit
\* Diagnoser of the first actor group, fed by notifications, while run()
\* takes the restart codes.
NextPipeline ==
    \/ SocketSenderSend(1)
    \/ SocketTaskRecv(1)
    \/ SocketTaskLookup(1)
    \/ SocketTaskSend(1)
    \/ ExitTaskRecv(1)
    \/ ExitTaskLookup(1)
    \/ ExitTaskSend(1)
    \/ TaskSpawnerRecv(1)
    \/ PlayerExit(1)
    \/ ChildSend(1)
    \/ ExitHandlerRecv(1)
    \/ ExitHandlerRequest(1)
    \/ ExitHandlerSendRetry(1)
    \/ ExitHandlerSendRestart(1)
    \/ SupervisorRecv

\* The runtime runs every task that can take a step: the tasks between a
\* live record and the player's launch are not starved.
FairPipeline ==
    /\ WF_vars(ExitHandlerSendRetry(1))
    /\ WF_vars(ExitTaskRecv(1))
    /\ WF_vars(ExitTaskLookup(1))
    /\ WF_vars(ExitTaskSend(1))
    /\ WF_vars(TaskSpawnerRecv(1))

SpecPipeline == InitPipeline /\ [][NextPipeline]_vars /\ FairPipeline

\* The Player Spawner of the first group on its own, for either player, fed
\* with play requests of every quality.
InitSpawner ==
    /\ settings \in [ player : Players, profile : {<< "normal", 1080 >>} ]
    /\ streams = PipelineStreams
    /\ provider = AnyProvider
    /\ InitFirstGroup
    /\ InitLoaded

NextSpawner ==
    \/ PlayRequestSend(1)
    \/ TaskSpawnerRecv(1)
    \/ PlayerExit(1)
    \/ ChildSend(1)

SpecSpawner == InitSpawner /\ [][NextSpawner]_vars

\* A provider whose search reports every stream live.
CycleProvider == [ AnyProvider EXCEPT !.search_responses = {"live"} ]

\* The play request the Correlator sends for kaicenat under PipelineStreams
\* and the normal profile (event_handler.rs:103-120).
LoadedRequest == << "kaicenat", 480 >>

\* The pipeline of the first actor group under load.  Live notifications
\* for one login have started many players (nothing limits the players of
\* a login, tasks_handler.rs:42-54) and the players have failed: ten play
\* requests wait in the Spawner's channel, nine retries in the Correlator's
\* and ten exits in the Diagnoser's.  The history variables start here; the
\* failures the model counts have happened.
InitCycle ==
    /\ settings = [ player |-> "Mpv", profile |-> << "normal", 1080 >> ]
    /\ streams = PipelineStreams
    /\ provider = CycleProvider
    /\ group_count = 1
    /\ supervisor = "wait"
    /\ token = "token"
    /\ user_access_token = [g \in Groups |-> IF g = 1 THEN "token" ELSE "none"]
    /\ restarts = << >>
    /\ InitLoaded
    /\ twitch_websocket_event_handler = [g \in Groups |-> << >>]
    /\ exit_handler_event_handler =
         [g \in Groups |->
            IF g = 1
            THEN [i \in 1..(ChannelCapacity - 1) |->
                    Message("retry", "kaicenat", TRUE)]
            ELSE << >>]
    /\ event_handler_task_spawner =
         [g \in Groups |->
            IF g = 1 THEN [i \in 1..ChannelCapacity |-> LoadedRequest]
            ELSE << >>]
    /\ task_spawner_exit_handler =
         [g \in Groups |->
            IF g = 1
            THEN [i \in 1..ChannelCapacity |->
                    [ login |-> "kaicenat", result |-> "failure" ]]
            ELSE << >>]
    /\ children = [g \in Groups |-> EmptyBag]
    /\ restart_signal = [g \in Groups |-> << >>]
    /\ receivers_dropped = [g \in Groups |-> {}]
    /\ first_name_signal = [g \in Groups |-> << >>]
    /\ websocket_session_id = [g \in Groups |-> ""]
    /\ stream_reader = [g \in Groups |-> ReaderStart]
    /\ subscriber = [g \in Groups |-> SubscriberStart]
    /\ socket_task = [g \in Groups |-> IdleTask]
    /\ exit_task = [g \in Groups |-> IdleTask]
    /\ exit_handler = [g \in Groups |-> IdleDiagnoser]
    /\ posts = [g \in Groups |-> {}]
    /\ socket_received = [g \in Groups |-> << >>]
    /\ socket_emitted = [g \in Groups |-> << >>]
    /\ exit_emitted = [g \in Groups |-> << >>]
    /\ play_requests = [g \in Groups |-> {}]
    /\ events_sent = 0
    /\ exits_sent = [g \in Groups |-> << >>]
    /\ exits_taken = [g \in Groups |-> << >>]
    /\ in_diagnosis = [g \in Groups |-> << >>]
    /\ searches = [g \in Groups |-> {}]
    /\ effects = [g \in Groups |-> {}]
    /\ retries_decided = [g \in Groups |-> << >>]
    /\ failures = MaxExits

\* The cycle Correlator -> Spawner -> Diagnoser -> Correlator of the first
\* actor group; the players the Spawner starts keep running.
NextCycle ==
    \/ ExitTaskRecv(1)
    \/ ExitTaskLookup(1)
    \/ ExitTaskSend(1)
    \/ TaskSpawnerRecv(1)
    \/ ExitHandlerRecv(1)
    \/ ExitHandlerRequest(1)
    \/ ExitHandlerSendRetry(1)

\* The runtime runs every task that can take a step.
FairCycle ==
    /\ WF_vars(ExitTaskRecv(1))
    /\ WF_vars(ExitTaskLookup(1))
    /\ WF_vars(ExitTaskSend(1))
    /\ WF_vars(TaskSpawnerRecv(1))
    /\ WF_vars(ExitHandlerRecv(1))
    /\ WF_vars(ExitHandlerRequest(1))
    /\ WF_vars(ExitHandlerSendRetry(1))

SpecCycle == InitCycle /\ [][NextCycle]_vars /\ FairCycle

\* ------------------------------------------------------------- claims ---
\* The logins of the notifications the socket task has finished handling.
SocketHandled(g) ==
    IF socket_task[g].pc = "recv" THEN socket_received[g]
    ELSE Front(socket_received[g])

\* C1: every (tag, login) received on the notification input results in
\* exactly one (login, quality) sent to the Player Spawner: the logins sent
\* by the socket task are, in order, the logins of the notifications it has
\* finished handling, whatever the config and retry inputs do meanwhile.
C1_ExactlyOnePlayRequest ==
    \A g \in Running : socket_emitted[g] = SocketHandled(g)

\* A notification has been played while a retry was being handled and the
\* config input had filled the table.
C1_Witness ==
    /\ Len(socket_emitted[1]) >= 1
    /\ socket_task[1].pc = "recv"
    /\ exit_task[1].pc = "send"
    /\ streamer_configs[1] # << >>

\* The quality the quality-resolution rule gives login L against a table:
\* that of the entry of L's overrides named like the global profile, if L is
\* in the table and has one; the global quality in every other case.
RuleQuality(table, login, profile) ==
    IF \E i \in DOMAIN table :
          /\ table[i].name = login
          /\ \E j \in DOMAIN table[i].quality_overides :
                table[i].quality_overides[j][1] = profile[1]
    THEN LET i == CHOOSE i \in DOMAIN table :
                    /\ table[i].name = login
                    /\ \E j \in DOMAIN table[i].quality_overides :
                          table[i].quality_overides[j][1] = profile[1]
             o == table[i].quality_overides
             j == CHOOSE j \in DOMAIN o : o[j][1] = profile[1]
         IN  o[j][2]
    ELSE profile[2]

\* C2: every play request carries the quality the resolution rule gives its
\* login against the table the lookup saw, with the Correlator's global
\* profile.
C2_QualityResolution ==
    \A g \in Running : \A r \in play_requests[g] :
        r.quality = RuleQuality(r.table, r.login, GlobalProfile)

\* The three cases of the rule have each been emitted: an override, a config
\* without a matching override, a login that is not in the table.
C2_Witness ==
    /\ \E r \in play_requests[1] : r.quality = 480
    /\ \E r \in play_requests[1] :
          /\ r.quality = 1080
          /\ \E i \in DOMAIN r.table :
                r.table[i].name = r.login /\ r.table[i].quality_overides # << >>

\* C3: the Correlator resolves against the global profile of the daemon's
\* Settings value.
C3_GlobalProfileFromSettings ==
    \A g \in Running : \A r \in play_requests[g] :
        r.quality = RuleQuality(r.table, r.login, settings.profile)

\* C4: a retry is resolved and emitted exactly like a notification: two play
\* requests for the same login, resolved against the same table, carry the
\* same quality, whatever their input channel and tag.
C4_RetryLikeNotification ==
    \A g \in Running : \A r1, r2 \in play_requests[g] :
        (r1.login = r2.login /\ r1.table = r2.table)
            => r1.quality = r2.quality

\* A notification and a retry for one login met the same table, in which the
\* login has an override for the global profile.
C4_Witness ==
    \E r1, r2 \in play_requests[1] :
        /\ r1.src = "socket" /\ r2.src = "exit"
        /\ r1.tag = "live" /\ r2.tag = "retry"
        /\ r1.login = r2.login /\ r1.table = r2.table
        /\ r1.quality = 480

\* The override of a login for the global profile in the schedule, if any.
HasOverride(login) ==
    \E i \in DOMAIN streams :
        /\ streams[i].name = login
        /\ \E j \in DOMAIN streams[i].quality_overides :
              streams[i].quality_overides[j][1] = GlobalProfile[1]

\* C5: a notification sent after its login's config was sent on the config
\* channel is played with the login's override quality, for every
\* scheduling of the three input tasks.
C5_ConfigBeforeEvent ==
    \A g \in Running : \A r \in play_requests[g] :
        (r.src = "socket" /\ r.cfg_sent /\ HasOverride(r.login))
            => r.quality = RuleQuality(streams, r.login, GlobalProfile)

\* C6: no subscription POST is issued while the session-id cell is empty:
\* the subscriber is past its poll of the cell only when a welcome frame has
\* filled it, and every subscription request carries a session id that is
\* not empty.
C6_SubscribeAfterWelcome ==
    \A g \in Running :
        /\ \A p \in posts[g] : p.session_id # ""
        /\ subscriber[g].pc \in {"recv", "post", "send_restart", "done"}
              => websocket_session_id[g] # ""
        /\ subscriber[g].pc \in {"post", "send_restart"}
              => subscriber[g].session_id # ""

\* The subscriber has requested a subscription for both ids of a schedule
\* after a welcome frame and has returned.
C6_Witness ==
    /\ subscriber[1].pc = "done"
    /\ Cardinality(posts[1]) = 2
    /\ \A p \in posts[1] : p.session_id \in SessionIds

\* The sleeps of one retry loop, the two most recent of them: none is longer
\* than 180 s and the later is not the shorter.
SleepsBounded(sleeps) ==
    /\ \A i \in DOMAIN sleeps : sleeps[i] <= 180
    /\ Len(sleeps) = 2 => sleeps[1] <= sleeps[2]

\* C7: in the dial retry, the subscription retry and the search retry the
\* sleep durations over consecutive failures never decrease and never exceed
\* 180 seconds.
C7_BackoffMonotonic ==
    \A g \in Groups :
        /\ SleepsBounded(stream_reader[g].sleeps)
        /\ SleepsBounded(subscriber[g].sleeps)
        /\ SleepsBounded(exit_handler[g].sleeps)

\* The broadcaster ids of a schedule, in its order.
Ids(s) == [i \in DOMAIN s |-> s[i].id]

\* C8: the Scheduler Loader of every actor group, the first and those built
\* after a restart, emits the ids and the configs of the Streams value in its
\* order, all of them by the time it returns, and the group's WebSocket
\* Session requests subscriptions for ids of that sequence only, for all of
\* them by the time its subscriber returns.
C8_RestartIdempotence ==
    \A g \in Running :
        /\ IsPrefix(ids_sent[g], Ids(streams))
        /\ IsPrefix(configs_sent[g], streams)
        /\ file_watcher[g].pc = "done"
              => ids_sent[g] = Ids(streams) /\ configs_sent[g] = streams
        /\ { p.id : p \in posts[g] }
              \subseteq { ids_sent[g][i] : i \in DOMAIN ids_sent[g] }
        /\ subscriber[g].pc = "done"
              => { p.id : p \in posts[g] }
                   = { streams[i].id : i \in DOMAIN streams }

\* After restart code 1 the second group has emitted and subscribed to the
\* two ids the first group had emitted and subscribed to.
C8_Witness ==
    /\ restarts = << 1 >>
    /\ group_count = 2
    /\ Len(streams) = 2
    /\ file_watcher[1].pc = "done" /\ file_watcher[2].pc = "done"
    /\ ids_sent[2] = ids_sent[1]
    /\ configs_sent[2] = configs_sent[1]
    /\ subscriber[2].pc = "done"
    /\ Cardinality({ p.id : p \in posts[1] }) = 2
    /\ { p.id : p \in posts[2] } = { p.id : p \in posts[1] }

\* C9: no retry stays undelivered: whatever logins the search API has
\* reported live after a player exit without success, a state follows in
\* which the Correlator's exit task has re-emitted a play request for each
\* of them, in the order they were reported in.
C9_AtLeastOnceRetry ==
    []<>(exit_emitted[1] = retries_decided[1])

\* A player exited without success, its login was found live, and the
\* Correlator re-emitted the login with its override quality.
C9_Witness ==
    /\ retries_decided[1] = << "kaicenat" >>
    /\ exit_emitted[1] = << "kaicenat" >>
    /\ \E r \in play_requests[1] :
          r.src = "exit" /\ r.tag = "retry" /\ r.login = "kaicenat"
              /\ r.quality = 480
    /\ \E i \in DOMAIN exits_taken[1] :
          exits_taken[1][i] = [ login |-> "kaicenat", result |-> "failure" ]

\* C10: at most one diagnosis is running; it is the diagnosis of the exit
\* taken last, so no exit is taken while one runs; every search request is
\* for the login of a taken exit that failed; the exits are taken in the
\* order they were sent in.
C10_OneDiagnosisInFlight ==
    \A g \in Running :
        /\ Len(in_diagnosis[g]) <= 1
        /\ in_diagnosis[g] # << >>
              => in_diagnosis[g] = << Len(exits_taken[g]) >>
        /\ (exit_handler[g].pc # "recv") <=> (in_diagnosis[g] # << >>)
        /\ IsPrefix(exits_taken[g], exits_sent[g])
        /\ \A s \in searches[g] :
              /\ s.exit \in DOMAIN exits_taken[g]
              /\ exits_taken[g][s.exit]
                   = [ login |-> s.login, result |-> "failure" ]

\* The second exit is being diagnosed, the first was diagnosed before it,
\* and a third waits in the channel.
C10_Witness ==
    /\ in_diagnosis[1] = << 2 >>
    /\ exit_handler[1].pc = "request"
    /\ \E s \in searches[1] : s.exit = 1
    /\ task_spawner_exit_handler[1] # << >>

\* C11: when the search API answers the diagnosis of a failed exit with the
\* login's record and is_live = false, no retry is sent to the Event
\* Correlator for that exit.
C11_OfflineEmitsNothing ==
    \A g \in Running :
      \A s \in searches[g] :
        s.response = "offline"
          => ~ \E e \in effects[g] : e.exit = s.exit /\ e.sent = "retry"

\* C12: a 200 response with the record not live, or without a record for the
\* login, is the only response of its diagnosis, and that diagnosis is over
\* once the response is in.
C12_OfflineOrAbsentEndsDiagnosis ==
    \A g \in Running :
      \A s \in searches[g] :
        s.response \in {"offline", "not_found"}
          => /\ s.exit \notin Range(in_diagnosis[g])
             /\ \A t \in searches[g] : t.exit = s.exit => t = s

\* C13: for an exit that is a success status or an error launching the
\* player the Diagnoser issues no search request, sends no retry and raises
\* no restart code, and is ready for the next exit at once.
C13_QuietOnSuccessOrError ==
    \A g \in Running :
      \A n \in DOMAIN exits_taken[g] :
        exits_taken[g][n].result \in {"success", "io_error"}
          => /\ \A s \in searches[g] : s.exit # n
             /\ \A e \in effects[g] : e.exit # n
             /\ n \notin Range(in_diagnosis[g])
             /\ n = Len(exits_taken[g]) => exit_handler[g].pc = "recv"

\* The Diagnoser has taken a success exit and a launch error, and has also
\* diagnosed a failed exit to the point of sending something.
C13_Witness ==
    /\ \E n \in DOMAIN exits_taken[1] : exits_taken[1][n].result = "success"
    /\ \E n \in DOMAIN exits_taken[1] : exits_taken[1][n].result = "io_error"
    /\ exits_taken[1][Len(exits_taken[1])].result # "failure"
    /\ effects[1] # {}

\* C14: a 401 from the search API ends the diagnosis with restart code 2 and
\* without a retry: while the response is being acted on the Diagnoser is at
\* the send of the code; afterwards the code has been put on the restart
\* channel (it is in the channel or run() has taken it), unless run() had
\* already left that channel, in which case the send fails and is ignored.
C14_UnauthorizedRaisesRestart ==
    \A g \in Running :
      \A s \in searches[g] :
        s.response = "unauthorized"
          => /\ ~ \E e \in effects[g] : e.exit = s.exit /\ e.sent = "retry"
             /\ IF s.exit \in Range(in_diagnosis[g])
                THEN exit_handler[g].pc = "send_restart"
                ELSE \E e \in effects[g] :
                       /\ e.exit = s.exit
                       /\ e.sent \in {"restart_2", "restart_2_unreceived"}
                       /\ e.sent = "restart_2"
                            => \/ 2 \in Range(restart_signal[g])
                               \/ 2 \in Range(restarts)
                       /\ e.sent = "restart_2_unreceived"
                            => ~ RestartReceiverOpen(g)

\* The first failed exit was answered 401, the code was sent and run() has
\* taken it; the Diagnoser is back at its receive.
C14_Witness ==
    /\ [ login |-> "kaicenat", exit |-> 1, response |-> "unauthorized" ]
          \in searches[1]
    /\ [ exit |-> 1, sent |-> "restart_2" ] \in effects[1]
    /\ restarts = << 2 >>
    /\ exit_handler[1].pc = "recv"

\* C15: a step of run() that takes code 1 builds the next actor group with
\* the token it holds and stays in the inner loop, with no validation; a
\* step that takes code 2 drops the token, builds nothing and goes to
\* validation; while run() validates it holds no token, and the only step
\* that ends validation is the one that obtains a token and builds the group
\* with it.
C15_RestartCodes ==
    /\ [](supervisor \in {"validate", "sleep"} => token = "none")
    /\ [][ /\ restarts' = Append(restarts, 1)
               => /\ group_count' = group_count + 1
                  /\ token' = token /\ token # "none"
                  /\ user_access_token'[group_count'] =
                       user_access_token[group_count]
                  /\ supervisor' = "wait"
           /\ restarts' = Append(restarts, 2)
               => /\ token' = "none"
                  /\ group_count' = group_count
                  /\ supervisor' = "validate"
           /\ supervisor # "wait"
               => IF group_count' # group_count
                  THEN /\ group_count' = group_count + 1
                       /\ token' # "none"
                       /\ user_access_token'[group_count'] = token'
                       /\ supervisor' = "wait"
                  ELSE supervisor' # "wait" ]_vars

\* run() has taken code 1, built the second group with the first group's
\* token, then taken code 2: it validates again and holds no token.
C15_Witness ==
    /\ restarts = << 1, 2 >>
    /\ group_count = 2
    /\ user_access_token[2] = user_access_token[1]
    /\ user_access_token[2] # "none"
    /\ token = "none"
    /\ supervisor = "sleep"

\* C16: a value other than 1 and 2 builds no actor group: every group was
\* built by the first validation, by a code 1 or by the validation after a
\* code 2.
C16_UnrecognizedCodeKeepsGroup ==
    group_count <= 1 + Cardinality({ i \in DOMAIN restarts :
                                      restarts[i] \in {1, 2} })

\* C18: once run() has handled a restart code, the tasks of the first actor
\* group end: its Scheduler Loader has returned and its WebSocket Session's
\* reader and subscriber have stopped.
C18_OldGroupTerminates ==
    (restarts # << >>)
      ~> /\ file_watcher[1].pc = "done"
         /\ subscriber[1].pc = "done"
         /\ stream_reader[1].pc = "done"

\* t is what is left of s after some of its first elements were taken.
IsSuffix(t, s) ==
    /\ Len(t) <= Len(s)
    /\ \A i \in 1..Len(t) : t[i] = s[Len(s) - Len(t) + i]

\* C19: the loader of every group sends the ids and the configs of the
\* Streams value in its order, an id always before its config; each channel
\* holds what was sent and not yet taken, in the order sent; when the loader
\* has returned everything was sent, and the subscriber sees the end of the
\* id channel only then, after it has taken every id.
C19_LoaderFifo ==
    \A g \in Running :
        /\ IsPrefix(ids_sent[g], Ids(streams))
        /\ IsPrefix(configs_sent[g], streams)
        /\ Len(configs_sent[g]) <= Len(ids_sent[g])
        /\ Len(ids_sent[g]) <= Len(configs_sent[g]) + 1
        /\ (file_watcher[g].pc = "send_config")
              <=> (Len(ids_sent[g]) = Len(configs_sent[g]) + 1)
        /\ IsSuffix(file_watcher_twitch_websocket[g], ids_sent[g])
        /\ IsSuffix(file_watcher_event_handler[g], configs_sent[g])
        /\ file_watcher[g].pc = "done"
              => /\ Len(ids_sent[g]) = Len(streams)
                 /\ Len(configs_sent[g]) = Len(streams)
        /\ subscriber[g].pc = "done"
              => /\ file_watcher[g].pc = "done"
                 /\ file_watcher_twitch_websocket[g] = << >>
                 /\ { p.id : p \in posts[g] } = Range(Ids(streams))

\* The loader of the first group has returned after two streams; the
\* subscriber has taken both ids and seen the end of the channel, and both
\* configs wait in the config channel in the schedule's order.
C19_Witness ==
    /\ Len(streams) = 2
    /\ streams[1].id # streams[2].id
    /\ file_watcher[1].pc = "done"
    /\ subscriber[1].pc = "done"
    /\ file_watcher_event_handler[1] = streams
    /\ ids_sent[1] = << streams[1].id, streams[2].id >>

\* The decimal numeral of a quality that a play request carries here.
Decimal(quality) ==
    CASE quality = 0 -> "0"
      [] quality = 1 -> "1"
      [] quality = 480 -> "480"
      [] quality = 1080 -> "1080"

\* The last argument of a command.
LastArg(command) == command[Len(command)]

\* C20: the command of every spawned player is, for url = streaming site +
\* login: mpv url --no-resume-playback --ytdl-format=bestaudio (mpv,
\* quality 0), mpv url --no-resume-playback
\* --ytdl-format=best[height<=?quality] (mpv, quality > 0), streamlink url
\* audio_only (streamlink, quality 0), streamlink url <quality>p (streamlink,
\* quality > 0); only quality 0 gives an audio-only command.
C20_PlayerArgv ==
    \A c \in BagToSet(children[1]) :
      LET url == "https://www.twitch.tv/" \o c.login IN
        /\ settings.player = "Mpv" /\ c.quality = 0
             => c.command = << "mpv", url, "--no-resume-playback",
                              "--ytdl-format=bestaudio" >>
        /\ settings.player = "Mpv" /\ c.quality > 0
             => /\ Len(c.command) = 4
                /\ SubSeq(c.command, 1, 3)
                     = << "mpv", url, "--no-resume-playback" >>
                /\ c.command[4] = "--ytdl-format=best[height<=?"
                                    \o Decimal(c.quality) \o "]"
        /\ settings.player = "Streamlink" /\ c.quality = 0
             => c.command = << "streamlink", url, "audio_only" >>
        /\ settings.player = "Streamlink" /\ c.quality > 0
             => /\ Len(c.command) = 3
                /\ SubSeq(c.command, 1, 2) = << "streamlink", url >>
                /\ c.command[3] = Decimal(c.quality) \o "p"
        /\ (LastArg(c.command) \in {"--ytdl-format=bestaudio", "audio_only"})
             <=> (c.quality = 0)

\* Streamlink was asked for jynxzi audio only and for kaicenat at 480: both
\* players are running.
C20_Witness ==
    /\ settings.player = "Streamlink"
    /\ \E c \in BagToSet(children[1]) :
          /\ c.quality = 0 /\ c.result = "running"
          /\ c.command = << "streamlink", "https://www.twitch.tv/jynxzi",
                            "audio_only" >>
    /\ \E c \in BagToSet(children[1]) :
          /\ c.quality = 480
          /\ c.command = << "streamlink", "https://www.twitch.tv/kaicenat",
                            "480p" >>

\* How many elements of the sequence s satisfy Test.
Count(s, Test(_)) == Cardinality({ i \in DOMAIN s : Test(s[i]) })

\* How many tasks of the bag of child tasks are for the login.
ChildrenFor(bag, login) ==
    LET for == { c \in BagToSet(bag) : c.login = login }
    IN  IF for = {} THEN 0
        ELSE BagCardinality([ c \in for |-> CopiesIn(c, bag) ])

Offered(frame) == stream_reader[1].pc = "read" /\ provider.frames = {frame}

\* The frame reader of the first group takes a step.
ReaderSteps == stream_reader'[1] # stream_reader[1]

C24_RevocationTerminates ==
    [][ /\ stream_reader[1].pc = "send_restart"
        /\ stream_reader[1].code = 2
        /\ ReaderSteps
        => stream_reader'[1].pc = "done" ]_vars

\* C25: handed a notification of subscription type stream.online and event
\* type live, the frame reader goes on to send ("live", login) with the
\* login of the notification, and that send is the only step that puts a
\* message on the Correlator's channel; handed a notification of another
\* event type or subscription type, a keepalive, a welcome or a revocation
\* with status user_removed or version_removed, the reader is waiting for
\* the next frame again at once: it sends neither a message nor a restart
\* code.
C25_LiveIffOnlineLive ==
    [][ /\ \A frame \in Frames :
              Offered(frame) /\ ReaderSteps
              => IF /\ frame[1] = "notification"
                    /\ frame[2] = "stream.online"
                    /\ frame[3] = "live"
                 THEN /\ stream_reader'[1].pc = "send_live"
                      /\ stream_reader'[1].login = frame[4]
                 ELSE stream_reader'[1].pc # "send_live"
        /\ \A frame \in Frames :
              /\ Offered(frame)
              /\ \/ /\ frame[1] = "notification"
                    /\ ~(frame[2] = "stream.online" /\ frame[3] = "live")
                 \/ frame[1] \in {"keepalive", "welcome"}
                 \/ /\ frame[1] = "revocation"
                    /\ frame[2] \in {"user_removed", "version_removed"}
              => ~ReaderSteps
        /\ stream_reader[1].pc = "send_live" /\ ReaderSteps
           => /\ Len(twitch_websocket_event_handler'[1])
                   = Len(twitch_websocket_event_handler[1]) + 1
              /\ LET sent == twitch_websocket_event_handler'[1]
                                [Len(twitch_websocket_event_handler'[1])]
                 IN  /\ sent.tag = "live"
                     /\ sent.login = stream_reader[1].login
        /\ twitch_websocket_event_handler'[1]
              # twitch_websocket_event_handler[1]
           => stream_reader[1].pc = "send_live" /\ ReaderSteps
      ]_vars

\* The reader has announced two streams and is handed a stream.online
\* notification of a rerun.
C25_Witness ==
    /\ Len(twitch_websocket_event_handler[1]) = 2
    /\ Offered(<< "notification", "stream.online", "rerun", "kaicenat" >>)

\* C30: handed a session_reconnect whose reconnect_url it could dial, the
\* frame reader replaces its connection by the new one and is waiting for
\* the next frame on it, with no restart code to send; handed one whose
\* reconnect_url it could not dial, it keeps its connection and goes on to
\* send restart code 1; no other frame changes the connection it reads.
C30_Reconnect ==
    [][ /\ Offered(<< "reconnect_ok" >>) /\ ReaderSteps
           => stream_reader'[1] =
                [ stream_reader[1] EXCEPT !.stream = "reconnect_url" ]
        /\ Offered(<< "reconnect_failed" >>) /\ ReaderSteps
           => stream_reader'[1] =
                [ stream_reader[1] EXCEPT !.pc = "send_restart", !.code = 1,
                                          !.then = "read" ]
        /\ /\ stream_reader[1].pc \notin {"dial", "redial"}
           /\ stream_reader'[1].stream # stream_reader[1].stream
           => Offered(<< "reconnect_ok" >>)
      ]_vars

\* The reader has moved to the connection of a reconnect_url and has taken a
\* live notification from it; no restart code was raised.
C30_Witness ==
    /\ stream_reader[1].stream = "reconnect_url"
    /\ stream_reader[1].pc = "send_live"
    /\ restarts = << >>
    /\ restart_signal[1] = << >>

\* The Diagnoser of group g takes a step from its search request, and the
\* request has failed with a network error: the failure is on record for the
\* exit under diagnosis and the step records no other response.
SearchFails(g) ==
    /\ exit_handler[g].pc = "request"
    /\ exit_handler'[g] # exit_handler[g]
    /\ [ login |-> exit_handler[g].stream_name,
         exit |-> Len(exits_taken[g]),
         response |-> "network_error" ] \in searches'[g]
    /\ \A s \in searches'[g] \ searches[g] : s.response = "network_error"

\* C26: a search request that fails with a network error leaves the
\* Diagnoser at the search request of the same login and the same exit: the
\* step sends no retry and no restart code and takes no exit from the queue;
\* and an exit is only ever taken by a Diagnoser that is not in a diagnosis.
C26_NetworkErrorRetriesSameLogin ==
    [][ \A g \in Running :
          /\ SearchFails(g)
             => /\ exit_handler'[g].pc = "request"
                /\ exit_handler'[g].stream_name = exit_handler[g].stream_name
                /\ in_diagnosis'[g] = in_diagnosis[g]
                /\ effects'[g] = effects[g]
                /\ retries_decided'[g] = retries_decided[g]
                /\ exit_handler_event_handler'[g] = exit_handler_event_handler[g]
                /\ restart_signal'[g] = restart_signal[g]
                /\ exits_taken'[g] = exits_taken[g]
                /\ task_spawner_exit_handler'[g] = task_spawner_exit_handler[g]
          /\ exits_taken'[g] # exits_taken[g] => exit_handler[g].pc = "recv"
      ]_vars

\* The search request of a diagnosis has failed twice in a row; the Diagnoser
\* is at the request again while the next exit waits in its queue.
C26_Witness ==
    /\ exit_handler[1].pc = "request"
    /\ Len(exit_handler[1].sleeps) = 2
    /\ \A s \in searches[1] : s.response = "network_error"
    /\ task_spawner_exit_handler[1] # << >>

\* The sleeps of one retry loop, the two most recent of them, as 1, 2, 4,
\* ..., 128, 180, 180, ... has them: a first sleep is 1 s, and a sleep is
\* the double of the one before it, or 180 s if that is less.
DoublesFromOne(sleeps) ==
    /\ Len(sleeps) = 1 => sleeps[1] = 1
    /\ Len(sleeps) = 2 => sleeps[2] = Min({180, 2 * sleeps[1]})

\* C27: in the subscription retry and in the search retry the sleep after
\* the k-th consecutive failure is min(180, 2^(k-1)) seconds.
C27_SleepSequence ==
    \A g \in Groups :
        /\ DoublesFromOne(subscriber[g].sleeps)
        /\ DoublesFromOne(exit_handler[g].sleeps)

\* C28: the id input of the WebSocket Session does not come to its end while
\* the group runs: the subscriber, which only returns when its receive finds
\* the channel closed and empty, has not returned, whether or not the
\* Scheduler Loader has emitted the whole schedule.
C28_LoaderChannelsStayOpen ==
    \A g \in Running : subscriber[g].pc # "done"

\* The players of group g that run for a login.
PlayersLive(g, login) ==
    LET live == { c \in BagToSet(children[g]) :
                    c.login = login /\ c.result = "running" }
    IN  IF live = {} THEN 0
        ELSE BagCardinality([ c \in live |-> CopiesIn(c, children[g]) ])

\* C29: at any time at most one player runs for a login.
C29_OnePlayerPerLogin ==
    \A g \in Running : \A login \in Logins : PlayersLive(g, login) <= 1

\* C22: no task of the Scheduler Loader or of the Event Correlator panics on
\* a send, whether or not the receiver of the channel still exists.
C22_NoPanicOnClosedChannel ==
    \A g \in Running :
        /\ file_watcher[g].pc # "panicked"
        /\ socket_task[g].pc # "panicked"
        /\ exit_task[g].pc # "panicked"

\* ---------------------------------------------------------------- C31 ---
\* The messages of the provider other than session_welcome
\* (twitch_socket.rs:240-343).
NotWelcome ==
    { frame \in Frames :
        frame[1] \in {"keepalive", "reconnect_ok", "reconnect_failed",
                      "notification", "revocation"} }

\* C31: awaiting welcome.  While no session id has been published on the
\* connection, a message of the provider that is not session_welcome and
\* that the reader acts on makes the reader send restart code 1 and return;
\* it does not handle the message as the operational state does.
C31_AwaitingWelcome ==
    [][ \A frame \in NotWelcome :
          ( /\ Offered(frame)
            /\ websocket_session_id[1] = ""
            /\ ReaderSteps )
          => /\ stream_reader'[1].pc = "send_restart"
             /\ stream_reader'[1].code = 1
             /\ stream_reader'[1].then = "done" ]_vars

\* ---------------------------------------------------------------- C32 ---
\* C32: a text frame that is not the provider's JSON is fatal for the whole
\* daemon: once the reader has stopped on such a frame the process has
\* exited, so no task of the daemon takes another step.
C32_MalformedJsonIsFatal ==
    [][ stream_reader[1].pc = "panicked" => UNCHANGED vars ]_vars

\* ---------------------------------------------------------------- C33 ---
\* C33: a subscription request answered with 401 makes the subscriber raise
\* restart code 2 and stop subscribing: from the send of the code it
\* returns, it does not go back to taking ids from the id channel.
C33_UnauthorizedStopsSubscribing ==
    [][ subscriber[1].pc = "send_restart"
          => subscriber'[1].pc \in {"send_restart", "done"} ]_vars

\* ---------------------------------------------------------------- C34 ---
\* The subscriber of the first group takes a step.
SubscriberSteps == subscriber'[1] # subscriber[1]

\* The answer the provider gives to the request about to be sent.
Answered(response) ==
    /\ subscriber[1].pc = "post"
    /\ provider.subscribe_responses = {response}

\* C34: subscription fan-out.  A request answered with a status other than
\* 202 and 401 makes the subscriber go on to the next id with no restart
\* code raised; a request that fails with a network error is sent again for
\* the same id, the id channel untouched; and the id the subscriber takes is
\* the oldest id of the Scheduler Loader that it has not taken yet.
C34_SubscriptionFanOut ==
    [][ /\ Answered("rejected") /\ SubscriberSteps
          => /\ subscriber'[1].pc = "recv"
             /\ restart_signal' = restart_signal
        /\ Answered("network_error") /\ SubscriberSteps
          => /\ subscriber'[1].pc = "post"
             /\ subscriber'[1].id = subscriber[1].id
             /\ file_watcher_twitch_websocket' = file_watcher_twitch_websocket
        /\ subscriber[1].pc = "recv" /\ subscriber'[1].pc = "post"
          => subscriber'[1].id =
               ids_sent[1][Len(ids_sent[1])
                           - Len(file_watcher_twitch_websocket[1]) + 1]
      ]_vars

\* The second id of the schedule is sent again after a network error, the
\* first one left behind.
C34_Witness ==
    /\ subscriber[1].pc = "post"
    /\ subscriber[1].sleeps # << >>
    /\ Len(ids_sent[1]) = 2
    /\ subscriber[1].id = ids_sent[1][2]
    /\ Cardinality(posts[1]) = 2
    /\ restarts = << >>
    /\ restart_signal[1] = << >>

\* ---------------------------------------------------------------- C35 ---
\* C35: for each id taken from the id channel once the session id is known,
\* exactly one subscription is created on the provider, not zero: the
\* subscriber leaves an id only after a request for it that the provider
\* has accepted, or after a 401, which ends the session with restart code 2.
C35_ExactlyOneSubscription ==
    [][ ( /\ subscriber[1].pc = "post"
          /\ SubscriberSteps
          /\ subscriber'[1].pc # "post" )
          => Answered("accepted") \/ Answered("unauthorized") ]_vars

\* ---------------------------------------------------------------- C36 ---
\* C36: token invariant.  The token of every actor group that has been
\* built is present; it is the token run() held when it built the group;
\* it never changes afterwards; and run() gives up the token it holds only
\* when it takes restart code 2, after which it validates again and builds
\* a new group.
C36_TokenInvariant ==
    /\ [](\A g \in Running : user_access_token[g] = "token")
    /\ [][ \A g \in Groups :
             g \in Running
               => user_access_token'[g] = user_access_token[g] ]_vars
    /\ [][ group_count' # group_count
             => user_access_token'[group_count'] = token' ]_vars
    /\ [][ (token = "token" /\ token' # token)
             => /\ supervisor = "wait"
                /\ supervisor' = "validate"
                /\ Head(restart_signal[group_count]) = 2
                /\ restarts' = Append(restarts, 2) ]_vars

\* run() has taken a code 2, validated again and built the second actor
\* group while the first still holds its token.
C36_Witness ==
    /\ group_count = 2
    /\ 2 \in Range(restarts)
    /\ token = "token"
    /\ user_access_token[1] = "token"
    /\ user_access_token[2] = "token"

\* ---------------------------------------------------------------- C37 ---
\* The Diagnoser waits for room in the Correlator's retry channel.
DiagnoserBlocked ==
    /\ exit_handler[1].pc = "send_retry"
    /\ Len(exit_handler_event_handler[1]) = ChannelCapacity

\* The Correlator's exit task waits for room in the Spawner's channel.
CorrelatorBlocked ==
    /\ exit_task[1].pc = "send"
    /\ Len(event_handler_task_spawner[1]) = ChannelCapacity

\* C37 as stated: no reachable state has the Diagnoser blocked on sending a
\* retry to the Correlator while the Correlator is blocked on sending to the
\* Spawner.
C37_NeverBothBlocked == ~(DiagnoserBlocked /\ CorrelatorBlocked)

\* C37 as amended: the cycle never deadlocks.  Whenever the Correlator waits
\* for room in the Spawner's channel the Spawner can take a request, whatever
\* the Diagnoser's channel holds; and whenever the Diagnoser and the
\* Correlator are both blocked, they do not stay so.
C37_CycleNeverDeadlocks ==
    /\ [](CorrelatorBlocked => ENABLED TaskSpawnerRecv(1))
    /\ []<>~(DiagnoserBlocked /\ CorrelatorBlocked)

\* The Diagnoser and the Correlator are blocked on their sends while exits
\* wait for the Diagnoser.
C37_Witness ==
    /\ DiagnoserBlocked
    /\ CorrelatorBlocked
    /\ task_spawner_exit_handler[1] # << >>

\* ---------------------------------------------------------------- C38 ---
\* C38: whenever the frame reader has stopped reading frames (it has
\* returned), a restart code has been sent on the restart channel in that
\* supervision cycle: it is in the channel or run() has taken it.
C38_DeadReaderHasRestart ==
    stream_reader[1].pc = "done"
      => restart_signal[1] # << >> \/ restarts # << >>

\* ---------------------------------------------------------------- C39 ---
\* C39: the reader is released, and so dials, only after the Scheduler
\* Loader has put an id in the id channel; with an empty schedule the reader
\* stays where it was spawned, no subscription is requested, no notification
\* is emitted and no restart code is raised.
C39_DialAfterFirstId ==
    /\ first_name_signal[1] # << >> => ids_sent[1] # << >>
    /\ stream_reader[1].pc # "wait_signal" => ids_sent[1] # << >>
    /\ streams = << >>
         => /\ stream_reader[1] = ReaderStart
            /\ posts[1] = {}
            /\ twitch_websocket_event_handler[1] = << >>
            /\ restart_signal[1] = << >>
            /\ restarts = << >>

\* The reader is connected, released after the first id of the schedule and
\* before the second.
C39_Witness ==
    /\ stream_reader[1].pc = "read"
    /\ Len(streams) = 2
    /\ Len(ids_sent[1]) = 1

\* ---------------------------------------------------------------- C40 ---
\* C40: a credential fault is never lost.  The step that ends an actor's
\* send of restart code 2 leaves the code on the restart channel, where
\* run() takes it, also when a code 1 was raised in the same supervision
\* cycle.
C40_CredentialFaultNotLost ==
    [][ /\ subscriber[1].pc = "send_restart" /\ SubscriberSteps
          => restart_signal'[1] = Append(restart_signal[1], 2)
        /\ ( /\ stream_reader[1].pc = "send_restart"
             /\ stream_reader[1].code = 2
             /\ ReaderSteps )
          => restart_signal'[1] = Append(restart_signal[1], 2) ]_vars

=========================================================================
